---- MODULE Spec2Model ----
(***************************************************************************)
(* Model of the document pipeline of the PDF-to-Excel OCR application      *)
(* (src/src/app/page.tsx): the React state held by Home(), the handlers    *)
(* passed to FileList, the guards FileList puts on its controls, and the   *)
(* asynchronous functions generatePagePreviews, processFile and           *)
(* handlePreviewData, each split at its awaits.                            *)
(***************************************************************************)
EXTENDS Integers, Sequences, FiniteSets, TLC

\* ------------------------------------------------------------------ bounds
\* number of pages of every uploaded PDF (pdf.numPages)
NumPages == 2
\* processFile calls over the whole behaviour
MaxRuns == 2
\* generatePagePreviews calls over the whole behaviour
MaxPreviewJobs == 2
\* extraction tasks a document can grow to
MaxTasks == 2
\* changes of the selected engine over the whole behaviour
MaxEngineChanges == 1
\* rectangles a document's region selection can grow to
MaxRects == 2
\* distinct texts the user types into a page's text area
MaxText == 1
\* distinct non-blank rule sets the user types into a task
MaxRule == 1

\* ------------------------------------------------------------- value sets
\* rows and columns of the table the table-structuring service reports
MaxTableRows == 3
MaxTableCols == 2

\* characters of a page's raw text, and values of a find or replace list
MaxChars == 3
MaxValues == 2

\* largest coordinate of the pointer over a page image
MaxCoordinate == 7
MaxBatch == 2
MaxListed == 3

DocIds == {"a"}
Pages == 1..NumPages
Engines == {"tesseract", "textract", "google", "ocrspace"}
TextEngines == {"tesseract", "google", "ocrspace"}
Statuses == {"pending", "awaiting-selection", "processing", "completed", "error"}
\* what a failing await throws: the flows and the libraries throw Error
\* objects, which carry a message
Thrown == {[isError |-> TRUE, message |-> "backend failed"]}
\* the errors the flows throw for a missing key or missing credentials
ConfigurationErrors ==
  [ocrspace |-> [isError |-> TRUE, message |-> "OCR.space API key is missing."],
   textract |-> [isError |-> TRUE, message |-> "AWS credentials are not configured."]]
Languages == {"eng", "hin"}
\* what the pre-processing call of a page ends with: a replacement image, a
\* rejected fetch, a response that is not ok, a response without the image
PreprocessOutcomes == {"processed", "rejected", "not ok", "no image"}
Rects == {"r1"}
\* rule sets of a task: 0 is the blank header list of a new task
Rules == 0..MaxRule
Texts == 1..MaxText
None == "none"
\* an optional value that is not a string: undefined, or the value x
Undefined == {}
Some(x) == {x}
TheValue(o) == CHOOSE x \in o : TRUE

\* ---------------------------------------------------------------- helpers
Range(s) == {s[i] : i \in 1..Len(s)}

MinOf(S) == CHOOSE m \in S : \A x \in S : m <= x

RECURSIVE RemoveFirst(_, _)
RemoveFirst(s, x) ==
  IF s = <<>> THEN <<>>
  ELSE IF Head(s) = x THEN Tail(s)
  ELSE <<Head(s)>> \o RemoveFirst(Tail(s), x)

\* Array.prototype.sort((a, b) => a - b) on an array of numbers
RECURSIVE SortAsc(_)
SortAsc(s) ==
  IF s = <<>> THEN <<>>
  ELSE LET m == MinOf(Range(s)) IN <<m>> \o SortAsc(RemoveFirst(s, m))

\* a JavaScript Set keeps insertion order: it is modelled as a sequence
\* without repetition
SetAdd(s, x) == IF x \in Range(s) THEN s ELSE Append(s, x)
SetDelete(s, x) == RemoveFirst(s, x)

RECURSIVE SeqFromTo(_, _)
SeqFromTo(i, n) == IF i > n THEN <<>> ELSE <<i>> \o SeqFromTo(i + 1, n)

\* Math.round(x) for x = num / den >= 0 (halves round up)
Round(num, den) == (2 * num + den) \div (2 * den)

Min(a, b) == IF a < b THEN a ELSE b

EmptyMap == <<>>
MapSet(m, k, v) == [x \in (DOMAIN m) \cup {k} |-> IF x = k THEN v ELSE m[x]]

\* ------------------------------------------------------------------ state
\* the character sets of the allowed-character string; each stands for the
\* characters of the constant of that name
ENG_CHARS == <<"ENG_CHARS">>
HINDI_CHARS == <<"HINDI_CHARS">>
SYMBOLS == <<"SYMBOLS">>

VARIABLES
  files,              \* useState<ProcessedFile[]>: document id -> record
  ocrEngine,          \* useState<OcrEngine>: the globally selected engine
  reprocessingFileId, \* useState<string | null>
  reOcrFileId,        \* useState<string | null>
  previewing,         \* the handlePreviewData call in flight (previewingFileId)
  previewJobs,        \* generatePagePreviews calls in flight: job id -> record
  nextJob,            \* number of generatePagePreviews calls made so far
  runs,               \* processFile calls: run id -> record
  engineChanges,      \* number of changes of the selected engine so far
  languages,          \* useState<string[]>: the globally selected languages
  ocrSpaceApiKey,     \* useState<string>: "" until the user types a key
  opencvApiUrl,       \* useState<string>: "" until the user types a URL
  awsCredentials,     \* process.env.AWS_* of the server are all set
  pureCall,           \* a call of a pure function: its input and result
  workbook,           \* the workbook the last export downloaded, if any
  charWhitelist,      \* useState<string>: the characters Tesseract may recognize
  startedBeforeClear, \* history: the calls that were in flight at a Clear All
  toast               \* title of the destructive toast the last step showed

vars == <<files, ocrEngine, reprocessingFileId, reOcrFileId, previewing,
          previewJobs, nextJob, runs, engineChanges, languages,
          ocrSpaceApiKey, opencvApiUrl, awsCredentials, pureCall, workbook,
          charWhitelist, startedBeforeClear,
                 toast>>

\* the settings of the page and of the server, the pure call and the
\* download
settings == <<languages, ocrSpaceApiKey, opencvApiUrl, awsCredentials, pureCall,
              workbook, charWhitelist, startedBeforeClear>>

\* the ProcessedFile that onFilesAdded creates
NewFile == [status |-> "pending", progress |-> 0, ocrEngine |-> None,
            error |-> None, extractedData |-> <<>>, pageImages |-> {},
            manuallyEditedPages |-> EmptyMap, totalPages |-> 0,
            selectedPages |-> <<>>, structuredDataPreview |-> Undefined,
            selectionRectangles |-> <<>>, pageImageDimensions |-> {},
            extractionTasks |-> <<>>, languages |-> Undefined]

ClearPreviews(tasks) ==
  [i \in 1..Len(tasks) |-> [tasks[i] EXCEPT !.structuredDataPreview = Undefined]]

Init ==
  /\ files = EmptyMap
  /\ ocrEngine = "tesseract"
  /\ reprocessingFileId = None
  /\ reOcrFileId = None
  /\ previewing = Undefined
  /\ previewJobs = EmptyMap
  /\ nextJob = 0
  /\ runs = EmptyMap
  /\ engineChanges = 0
  /\ languages = <<"eng">>
  /\ ocrSpaceApiKey = ""
  /\ opencvApiUrl = ""
  /\ awsCredentials = TRUE
  /\ pureCall = Undefined
  /\ workbook = Undefined
  /\ charWhitelist = ENG_CHARS \o SYMBOLS
  /\ startedBeforeClear = {}
  /\ toast = None

\* ------------------------------------------------- updates of `files`
Has(d) == d \in DOMAIN files

\* a map that leaves out the test of the id
MapEveryFile(fs, d, rec) == [x \in DOMAIN fs |-> rec]

\* setFiles(prev => prev.map(f => f.id === d ? rec : f))
MapFile(fs, d, rec) == IF d \in DOMAIN fs THEN [fs EXCEPT ![d] = rec] ELSE fs

\* the text a recognition run r produced, and a text typed by the user
OcrText(r) == [src |-> "ocr", v |-> r]
UserText(t) == [src |-> "edit", v |-> t]

DataPages(f) == {f.extractedData[i].page : i \in 1..Len(f.extractedData)}

\* ------------------------------------------------- guards of the controls
\* FileList: isActionDisabled of one list item
\* (isDownloading and reSuggestingTaskId belong to the export and to the
\* rule suggestions, which write no field the pipeline reads and are left
\* out: they are never set here)
IsActionDisabled(d) ==
  \/ reprocessingFileId = d
  \/ previewing # Undefined
  \/ reOcrFileId = d
  \/ files[d].status = "processing"

\* FileList: the "Review & Edit Raw Extracted Data" accordion is rendered
RawPanelVisible(d) ==
  /\ Has(d)
  /\ files[d].ocrEngine \in TextEngines
  /\ Len(files[d].extractedData) > 0

\* FileList: the "Extraction Tasks" section is rendered
TaskPanelVisible(d) ==
  /\ Has(d)
  /\ files[d].status = "completed"
  /\ files[d].ocrEngine \in TextEngines

\* FileList: the page selection section is rendered (pagePreviews is set
\* together with totalPages)
SelectionPanelVisible(d) ==
  /\ Has(d)
  /\ files[d].status = "awaiting-selection"
  /\ files[d].totalPages > 0

TaskIndex(f, t) == {i \in 1..Len(f.extractionTasks) : f.extractionTasks[i].id = t}

\* --------------------------------------------------- synchronous handlers
SetOcrEngine(e) ==
  /\ engineChanges < MaxEngineChanges
  /\ e # ocrEngine
  /\ engineChanges' = engineChanges + 1
  /\ ocrEngine' = e
  /\ UNCHANGED <<files, reprocessingFileId, reOcrFileId, previewing, previewJobs, nextJob, runs, settings>>
  /\ toast' = None

\* the language checkboxes, shown for the engines that take languages; a
\* click asks for the opposite of what the box shows
LanguageChecked(lang) ==
  IF lang = "hinglish" THEN Languages \subseteq Range(languages)
  ELSE lang \in Range(languages)

LanguagesChanged(prev, lang, checked) ==
  IF lang = "hinglish"
  THEN IF checked THEN SetAdd(SetAdd(prev, "eng"), "hin")
       ELSE SetDelete(SetDelete(prev, "eng"), "hin")
  ELSE IF checked THEN SetAdd(prev, lang) ELSE SetDelete(prev, lang)

\* an allowed-character string that follows the order of the language list
NewWhitelistInListOrder(newLangs) ==
  IF Len(newLangs) > 0 /\ newLangs[1] = "hin" /\ "eng" \in Range(newLangs)
  THEN HINDI_CHARS \o ENG_CHARS \o SYMBOLS
  ELSE (IF "eng" \in Range(newLangs) THEN ENG_CHARS ELSE <<>>)
       \o (IF "hin" \in Range(newLangs) THEN HINDI_CHARS ELSE <<>>)
       \o SYMBOLS

\* newWhitelist: the character sets of the selected languages, then the symbols
NewWhitelist(newLangs) ==
  (IF "eng" \in Range(newLangs) THEN ENG_CHARS ELSE <<>>)
  \o (IF "hin" \in Range(newLangs) THEN HINDI_CHARS ELSE <<>>)
  \o SYMBOLS

\* a handler that accepts every toggle
handleLanguageChangeUnchecked(lang, checked) ==
  /\ ocrEngine \in {"tesseract", "ocrspace"}
  /\ checked = ~LanguageChecked(lang)
  /\ languages' = LanguagesChanged(languages, lang, checked)
  /\ charWhitelist' = NewWhitelist(languages')
  /\ toast' = None
  /\ UNCHANGED <<files, ocrEngine, reprocessingFileId, reOcrFileId, previewing,
                 previewJobs, nextJob, runs, engineChanges,
                 ocrSpaceApiKey, opencvApiUrl, awsCredentials, pureCall, workbook,
                 startedBeforeClear>>

handleLanguageChange(lang, checked) ==
  /\ ocrEngine \in {"tesseract", "ocrspace"}
  /\ checked = ~LanguageChecked(lang)
  /\ LET newLangs == LanguagesChanged(languages, lang, checked)
     IN IF Len(newLangs) = 0
        THEN /\ toast' = "Language Required"
             /\ UNCHANGED <<languages, charWhitelist>>
        ELSE /\ languages' = newLangs
             /\ charWhitelist' = NewWhitelist(newLangs)
             /\ toast' = None
  /\ UNCHANGED <<files, ocrEngine, reprocessingFileId, reOcrFileId, previewing,
                 previewJobs, nextJob, runs, engineChanges,
                 ocrSpaceApiKey, opencvApiUrl, awsCredentials, pureCall, workbook,
                 startedBeforeClear>>

\* the "Character Whitelist (Advanced)" field of the Tesseract configuration
setCharWhitelist(value) ==
  /\ ocrEngine = "tesseract"
  /\ value # charWhitelist
  /\ charWhitelist' = value
  /\ toast' = None
  /\ UNCHANGED <<files, ocrEngine, reprocessingFileId, reOcrFileId, previewing,
                 previewJobs, nextJob, runs, engineChanges, languages,
                 ocrSpaceApiKey, opencvApiUrl, awsCredentials, pureCall, workbook,
                 startedBeforeClear>>

setOcrSpaceApiKey(key) ==
  /\ ocrEngine = "ocrspace"
  /\ key # ocrSpaceApiKey
  /\ ocrSpaceApiKey' = key
  /\ toast' = None
  /\ UNCHANGED <<files, ocrEngine, reprocessingFileId, reOcrFileId, previewing,
                 previewJobs, nextJob, runs, engineChanges,
                 languages, opencvApiUrl, awsCredentials, pureCall, workbook,
                 charWhitelist, startedBeforeClear>>

\* the URL field of the Tesseract configuration
setOpencvApiUrl(url) ==
  /\ ocrEngine = "tesseract"
  /\ url # opencvApiUrl
  /\ opencvApiUrl' = url
  /\ toast' = None
  /\ UNCHANGED <<files, ocrEngine, reprocessingFileId, reOcrFileId, previewing,
                 previewJobs, nextJob, runs, engineChanges,
                 languages, ocrSpaceApiKey, awsCredentials, pureCall, workbook,
                 charWhitelist, startedBeforeClear>>

TextChanged(f, page, t) ==
  [f EXCEPT !.manuallyEditedPages = MapSet(@, page, UserText(t)),
            !.extractionTasks = ClearPreviews(@)]

handleTextChange(d, page, t) ==
  /\ RawPanelVisible(d)
  /\ page \in DataPages(files[d])
  /\ ~(page \in DOMAIN files[d].manuallyEditedPages
        /\ files[d].manuallyEditedPages[page] = UserText(t))
  /\ files' = MapFile(files, d, TextChanged(files[d], page, t))
  /\ UNCHANGED <<ocrEngine, reprocessingFileId, reOcrFileId, previewing,
                 previewJobs, nextJob, runs, engineChanges, settings>>
  /\ toast' = None

\* `Sheet ${n}`
SheetName(n) == "Sheet " \o ToString(n)

NewTask(id, name) ==
  [id |-> id, name |-> name, rules |-> 0, structuredDataPreview |-> Undefined]

\* `task-${Date.now()}`: an id no task that is still referenced has
TasksOf(f) == {f.extractionTasks[i].id : i \in 1..Len(f.extractionTasks)}
UsedTaskIds ==
  UNION {TasksOf(files[d]) : d \in DOMAIN files}
    \cup UNION {TasksOf(runs[r].processedFile) : r \in DOMAIN runs}
    \cup {call.task : call \in previewing}
FreshTaskId == MinOf({n \in 1..(Cardinality(UsedTaskIds) + 1) : n \notin UsedTaskIds})

handleAddTask(d) ==
  /\ TaskPanelVisible(d)
  /\ Len(files[d].extractionTasks) < MaxTasks
  /\ files' = MapFile(files, d,
       [files[d] EXCEPT !.extractionTasks = Append(@, NewTask(FreshTaskId, SheetName(Len(@) + 1)))])
  /\ UNCHANGED <<ocrEngine, reprocessingFileId, reOcrFileId, previewing,
                 previewJobs, nextJob, runs, engineChanges, settings>>
  /\ toast' = None

handleRemoveTask(d, t) ==
  /\ TaskPanelVisible(d)
  /\ Len(files[d].extractionTasks) > 1
  /\ TaskIndex(files[d], t) # {}
  /\ files' = MapFile(files, d,
       [files[d] EXCEPT !.extractionTasks =
          SelectSeq(@, LAMBDA task : task.id # t)])
  /\ UNCHANGED <<ocrEngine, reprocessingFileId, reOcrFileId, previewing,
                 previewJobs, nextJob, runs, engineChanges, settings>>
  /\ toast' = None

\* an update that stores the new rules and keeps the task's preview
TaskUpdatedKeepingPreview(tasks, t, rules) ==
  [i \in 1..Len(tasks) |->
     IF tasks[i].id = t THEN [tasks[i] EXCEPT !.rules = rules] ELSE tasks[i]]

\* tasks.map(task => task.id === t ? { ...task, ...delta, preview: undefined } : task)
TaskUpdated(tasks, t, rules) ==
  [i \in 1..Len(tasks) |->
     IF tasks[i].id = t
     THEN [tasks[i] EXCEPT !.rules = rules, !.structuredDataPreview = Undefined]
     ELSE tasks[i]]

handleUpdateTask(d, t, rules) ==
  /\ TaskPanelVisible(d)
  /\ \E i \in TaskIndex(files[d], t) : files[d].extractionTasks[i].rules # rules
  /\ files' = MapFile(files, d,
       [files[d] EXCEPT !.extractionTasks = TaskUpdated(@, t, rules)])
  /\ UNCHANGED <<ocrEngine, reprocessingFileId, reOcrFileId, previewing,
                 previewJobs, nextJob, runs, engineChanges, settings>>
  /\ toast' = None

RectanglesSet(f, rects) ==
  [f EXCEPT !.selectionRectangles = rects,
            !.extractionTasks = ClearPreviews(@)]

handleSetSelectionRectangles(d, rects) ==
  /\ files' = MapFile(files, d, RectanglesSet(files[d], rects))
  /\ UNCHANGED <<ocrEngine, reprocessingFileId, reOcrFileId, previewing,
                 previewJobs, nextJob, runs, engineChanges, settings>>
  /\ toast' = None

\* FileList.handleMouseUp with a drawn rectangle of at least 5 x 5 on the
\* image of page `page`: appends the scaled rectangle
handleMouseUp(d, page, rect) ==
  /\ RawPanelVisible(d)
  /\ ocrEngine = "tesseract"
  /\ page \in DataPages(files[d])
  /\ page \in files[d].pageImageDimensions
  /\ Len(files[d].selectionRectangles) < MaxRects
  /\ handleSetSelectionRectangles(d, Append(files[d].selectionRectangles, rect))

\* FileList: the "Clear Selections" button
ClearSelections(d) ==
  /\ RawPanelVisible(d)
  /\ ocrEngine = "tesseract"
  /\ Len(files[d].selectionRectangles) > 0
  /\ ~IsActionDisabled(d)
  /\ handleSetSelectionRectangles(d, <<>>)

handlePageSelectionChange(d, page, isSelected) ==
  /\ SelectionPanelVisible(d)
  /\ page \in 1..files[d].totalPages
  /\ isSelected = (page \notin Range(files[d].selectedPages))
  /\ files' = MapFile(files, d,
       [files[d] EXCEPT !.selectedPages =
          IF isSelected THEN SetAdd(@, page) ELSE SetDelete(@, page)])
  /\ UNCHANGED <<ocrEngine, reprocessingFileId, reOcrFileId, previewing,
                 previewJobs, nextJob, runs, engineChanges, settings>>
  /\ toast' = None

handleSelectAllPages(d, select) ==
  /\ SelectionPanelVisible(d)
  /\ files' = MapFile(files, d,
       [files[d] EXCEPT !.selectedPages =
          IF select THEN SeqFromTo(1, files[d].totalPages) ELSE <<>>])
  /\ UNCHANGED <<ocrEngine, reprocessingFileId, reOcrFileId, previewing,
                 previewJobs, nextJob, runs, engineChanges, settings>>
  /\ toast' = None

clearAll ==
  /\ DOMAIN files # {}
  /\ files' = EmptyMap
  /\ startedBeforeClear' = startedBeforeClear
                           \cup {<<"job", j>> : j \in DOMAIN previewJobs}
                           \cup {<<"run", r>> : r \in {x \in DOMAIN runs :
                                    runs[x].pc \notin {"completed", "failed"}}}
  /\ UNCHANGED <<ocrEngine, reprocessingFileId, reOcrFileId, previewing,
                 previewJobs, nextJob, runs, engineChanges, languages,
                 ocrSpaceApiKey, opencvApiUrl, awsCredentials, pureCall,
                 workbook, charWhitelist>>
  /\ toast' = None

\* ---------------------------------------------------------- error values
\* error instanceof Error ? error.message : fallback
ErrorMessage(thrown, fallback) ==
  IF thrown.isError THEN thrown.message ELSE fallback

\* ------------------------------------------------- generatePagePreviews
\* a call in flight: the document id it was called for, the number of pages
\* rendered so far, and whether handleReprocess awaits it
PreviewJob(d, awaited) == [doc |-> d, i |-> 0, awaited |-> awaited]

SpawnPreviews(ds, awaited) ==
  [j \in (DOMAIN previewJobs) \cup {nextJob + 1} |->
     IF j \in DOMAIN previewJobs THEN previewJobs[j]
     ELSE PreviewJob(CHOOSE d \in ds : TRUE, awaited)]

DropJob(j) == [k \in (DOMAIN previewJobs) \ {j} |-> previewJobs[k]]

\* the `finally` of handleReprocess, reached when the awaited call returns
ReprocessFinally(j) ==
  reprocessingFileId' = IF previewJobs[j].awaited THEN None ELSE reprocessingFileId

PreviewProgress(f, i, numPages) ==
  [f EXCEPT !.progress = Round(i * 100, numPages)]

PreviewsGenerated(f, numPages) ==
  [f EXCEPT !.status = "awaiting-selection",
            !.totalPages = numPages,
            !.pageImageDimensions = 1..numPages,
            !.progress = 0]

PreviewsFailed(f, thrown) ==
  [f EXCEPT !.status = "error", !.progress = 0,
            !.error = ErrorMessage(thrown, "Could not read PDF for preview.")]

\* one iteration of the page loop; after the last page the final update is
\* made in the same synchronous block
PreviewPage(j) ==
  /\ j \in DOMAIN previewJobs
  /\ LET job == previewJobs[j]
         d == job.doc
         i == job.i + 1
     IN IF i < NumPages
        THEN /\ files' = MapFile(files, d, PreviewProgress(files[d], i, NumPages))
             /\ previewJobs' = [previewJobs EXCEPT ![j].i = i]
             /\ UNCHANGED reprocessingFileId
        ELSE /\ files' = MapFile(files, d, PreviewsGenerated(files[d], NumPages))
             /\ previewJobs' = DropJob(j)
             /\ ReprocessFinally(j)
  /\ UNCHANGED <<ocrEngine, reOcrFileId, previewing, nextJob, runs, engineChanges, settings>>
  /\ toast' = None

\* an await of the call (reading the file, loading the PDF, rendering a
\* page) rejects: the catch block
PreviewFails(j, thrown) ==
  /\ j \in DOMAIN previewJobs
  /\ files' = MapFile(files, previewJobs[j].doc,
                      PreviewsFailed(files[previewJobs[j].doc], thrown))
  /\ previewJobs' = DropJob(j)
  /\ ReprocessFinally(j)
  /\ toast' = "Preview Failed"
  /\ UNCHANGED <<ocrEngine, reOcrFileId, previewing, nextJob, runs, engineChanges, settings>>

\* the toast of the test that rejects an upload, or None
UploadRejected ==
  IF ocrEngine \in {"tesseract", "ocrspace"} /\ Len(languages) = 0
  THEN "No Language Selected"
  ELSE IF ocrEngine = "ocrspace" /\ ocrSpaceApiKey = ""
  THEN "API Key Required"
  ELSE None

onFilesAdded(d) ==
  /\ nextJob < MaxPreviewJobs
  /\ ~Has(d)
  /\ IF UploadRejected # None
     THEN /\ toast' = UploadRejected
          /\ UNCHANGED <<files, previewJobs, nextJob>>
     ELSE /\ files' = [x \in (DOMAIN files) \cup {d} |->
                         IF x = d THEN NewFile ELSE files[x]]
          /\ previewJobs' = SpawnPreviews({d}, FALSE)
          /\ nextJob' = nextJob + 1
          /\ toast' = None
  /\ UNCHANGED <<ocrEngine, reprocessingFileId, reOcrFileId, previewing,
                 runs, engineChanges, settings>>

\* the resetFile that handleReprocess builds from the document
ResetFile(f) ==
  [NewFile EXCEPT !.extractionTasks = ClearPreviews(f.extractionTasks)]

\* FileList: "Reprocess" of a completed item, "Try Again" of an item in error
ReprocessEnabled(d) ==
  /\ Has(d)
  /\ \/ files[d].status = "completed" /\ ~IsActionDisabled(d)
     \/ files[d].status = "error" /\ reprocessingFileId # d

handleReprocess(d) ==
  /\ ReprocessEnabled(d)
  /\ nextJob < MaxPreviewJobs
  /\ reprocessingFileId' = d
  /\ files' = MapFile(files, d, ResetFile(files[d]))
  /\ previewJobs' = SpawnPreviews({d}, TRUE)
  /\ nextJob' = nextJob + 1
  /\ UNCHANGED <<ocrEngine, reOcrFileId, previewing, runs, engineChanges, settings>>
  /\ toast' = None

\* ------------------------------------------------------------ processFile
RunIds == DOMAIN runs
Live(r) == runs[r].pc \notin {"completed", "failed"}

\* the selected pages in the order of their selection
PagesInSelectionOrder(selectedPages) == selectedPages

\* Array.from(processedFile.selectedPages).sort((a,b) => a - b)
PagesToProcess(selectedPages) == SortAsc(selectedPages)

\* the first setFiles of processFile
EnterProcessing(f, selectedLangs, engine, isReOcr) ==
  [f EXCEPT !.status = "processing",
            !.progress = 5,
            !.ocrEngine = engine,
            !.languages = Some(selectedLangs),
            !.extractedData = <<>>,
            !.manuallyEditedPages = IF isReOcr THEN @ ELSE EmptyMap,
            !.extractionTasks = ClearPreviews(@)]

\* the state of a call of processFile(processedFile, selectedLangs, engine);
\* `called` lists the pages the backend was invoked for, `inFlight` holds the
\* pages whose invocation has not returned, `thrown` and `caught` record the
\* value the catch block received and the await that threw it; `rendered`
\* lists the pages rendered and `images` the image each call was given;
\* ocrSpaceApiKey and opencvApiUrl are the values of the render the call
\* was made in, which its closure keeps
NewRun(d, processedFile, selectedLangs, engine, awaited) ==
  [doc |-> d, engine |-> engine, processedFile |-> processedFile,
   selectedLangs |-> selectedLangs,
   ocrSpaceApiKey |-> ocrSpaceApiKey, opencvApiUrl |-> opencvApiUrl,
   rendered |-> <<>>, images |-> <<>>,
   awaited |-> awaited,
   pagesToProcess |-> PagesToProcess(processedFile.selectedPages),
   processedCount |-> 0, pc |-> "setup",
   tesseractWorker |-> None, workersCreated |-> 0,
   called |-> <<>>, inFlight |-> {},
   newExtractedDataForFile |-> <<>>, allStructuredData |-> <<>>,
   thrown |-> Undefined, caught |-> None]

\* the synchronous head of processFile, run inside the calling handler
processFile(d, selectedLangs, engine, awaited) ==
  /\ Cardinality(RunIds) < MaxRuns
  /\ LET r == Cardinality(RunIds) + 1
         isReOcr == files[d].pageImages # {}
     IN /\ runs' = [x \in RunIds \cup {r} |->
                      IF x = r THEN NewRun(d, files[d], selectedLangs, engine, awaited)
                      ELSE runs[x]]
        /\ files' = MapFile(files, d,
                            EnterProcessing(files[d], selectedLangs, engine, isReOcr))

RunProgress(processedCount, numPages) ==
  Min(100, Round(5 * numPages + processedCount * 95, numPages))

DefaultTask(id) == NewTask(id, SheetName(1))

\* a final update that takes a run without any structured row for a failure
CompletedRequiringRows(f, run, r) ==
  IF run.engine = "textract"
  THEN IF run.allStructuredData = <<>>
       THEN [f EXCEPT !.status = "error", !.progress = 0, !.error = "No table found"]
       ELSE [f EXCEPT !.status = "completed", !.progress = 100,
                      !.structuredDataPreview = Some(run.allStructuredData)]
  ELSE [f EXCEPT !.status = "completed", !.progress = 100,
                 !.extractedData = run.newExtractedDataForFile]

\* the final setFiles of processFile, applied to the current record f
Completed(f, run, r) ==
  IF run.engine = "textract"
  THEN [f EXCEPT !.status = "completed", !.progress = 100,
                 !.structuredDataPreview = Some(run.allStructuredData)]
  ELSE [f EXCEPT !.status = "completed", !.progress = 100,
                 !.extractedData = run.newExtractedDataForFile,
                 !.pageImages = run.processedFile.pageImages
                                  \cup {run.newExtractedDataForFile[i].page :
                                          i \in 1..Len(run.newExtractedDataForFile)},
                 !.pageImageDimensions = run.processedFile.pageImageDimensions
                                  \cup {run.newExtractedDataForFile[i].page :
                                          i \in 1..Len(run.newExtractedDataForFile)},
                 !.extractionTasks = IF Len(f.extractionTasks) > 0
                                     THEN ClearPreviews(f.extractionTasks)
                                     ELSE <<DefaultTask(FreshTaskId)>>]

\* a catch block that marks the document without recording the message
FailedWithoutMessage(run, thrown) ==
  [run.processedFile EXCEPT !.status = "error", !.progress = 0]

\* the setFiles of the catch block of processFile
Failed(run, thrown) ==
  [run.processedFile EXCEPT !.status = "error", !.progress = 0,
                            !.error = ErrorMessage(thrown, "An unknown error occurred.")]

\* the call has returned: its closure, and with it the processedFile it was
\* given, is no longer referenced
Returned(run, pc) == [run EXCEPT !.pc = pc, !.processedFile = NewFile]

\* the `finally` of handleReOcr, reached when the awaited run returns
ReOcrFinally(r) ==
  reOcrFileId' = IF runs[r].awaited THEN None ELSE reOcrFileId

\* the run `run` (already updated by the step that led here) goes on after
\* a page or after the set-up: to the next page, to the termination of the
\* worker, or straight to the final update when no await is left
Continue(r, run, fs) ==
  IF run.processedCount < Len(run.pagesToProcess)
  THEN /\ runs' = [runs EXCEPT ![r] = [run EXCEPT !.pc = "page"]]
       /\ files' = fs
       /\ UNCHANGED reOcrFileId
  ELSE IF run.tesseractWorker # None
  THEN /\ runs' = [runs EXCEPT ![r] = [run EXCEPT !.pc = "terminating"]]
       /\ files' = fs
       /\ UNCHANGED reOcrFileId
  ELSE /\ runs' = [runs EXCEPT ![r] = Returned(run, "completed")]
       /\ files' = MapFile(fs, run.doc, Completed(fs[run.doc], run, r))
       /\ ReOcrFinally(r)

\* a catch block that keeps what the run had accumulated before it failed
CatchKeepingPartialResults(r, run, thrown) ==
  /\ runs' = [runs EXCEPT ![r] = [Returned(run, "failed") EXCEPT
                                     !.thrown = Some(thrown), !.caught = run.pc,
                                     !.inFlight = {}]]
  /\ files' = MapFile(files, run.doc,
                      [Failed(run, thrown) EXCEPT
                         !.extractedData = run.newExtractedDataForFile,
                         !.structuredDataPreview = Some(run.allStructuredData)])
  /\ toast' = "Conversion failed"
  /\ ReOcrFinally(r)

\* a catch block that reports the failure and leaves the document as it is
CatchLeavingDocument(r, run, thrown) ==
  /\ runs' = [runs EXCEPT ![r] = [Returned(run, "failed") EXCEPT
                                     !.thrown = Some(thrown), !.caught = run.pc,
                                     !.inFlight = {}]]
  /\ UNCHANGED files
  /\ toast' = "Conversion failed"
  /\ ReOcrFinally(r)

\* a catch block that marks the record the list holds and restores nothing
CatchMarkingCurrentRecord(r, run, thrown) ==
  /\ runs' = [runs EXCEPT ![r] = [Returned(run, "failed") EXCEPT
                                     !.thrown = Some(thrown), !.caught = run.pc,
                                     !.inFlight = {}]]
  /\ files' = [d \in DOMAIN files |->
                 IF d = run.doc
                 THEN [files[d] EXCEPT !.status = "error", !.progress = 0,
                         !.error = ErrorMessage(thrown, "An unknown error occurred.")]
                 ELSE files[d]]
  /\ toast' = "Conversion failed"
  /\ ReOcrFinally(r)

\* the catch block
Catch(r, run, thrown) ==
  /\ runs' = [runs EXCEPT ![r] = [Returned(run, "failed") EXCEPT
                                     !.thrown = Some(thrown), !.caught = run.pc,
                                     !.inFlight = {}]]
  /\ files' = MapFile(files, run.doc, Failed(run, thrown))
  /\ toast' = "Conversion failed"
  /\ ReOcrFinally(r)

\* the set-up of the run returns: handleFileToDataUri, pdfjs.getDocument
\* and, for the in-process recognizer, Tesseract.createWorker and
\* setParameters
SetUp(r) ==
  /\ r \in RunIds /\ runs[r].pc = "setup"
  /\ Continue(r, IF runs[r].engine = "tesseract"
                 THEN [runs[r] EXCEPT !.tesseractWorker = "alive",
                                      !.workersCreated = @ + 1]
                 ELSE runs[r], files)
  /\ toast' = None
  /\ UNCHANGED <<ocrEngine, reprocessingFileId, previewing,
                 previewJobs, nextJob, engineChanges, settings>>

\* an await of the set-up rejects: before the worker exists (reading the
\* file, loading the PDF, createWorker) or after (setParameters)
SetUpFails(r, thrown, created) ==
  /\ r \in RunIds /\ runs[r].pc = "setup"
  /\ created => runs[r].engine = "tesseract"
  /\ Catch(r, IF created
              THEN [runs[r] EXCEPT !.tesseractWorker = "alive", !.workersCreated = @ + 1]
              ELSE runs[r], thrown)
  /\ UNCHANGED <<ocrEngine, reprocessingFileId, previewing,
                 previewJobs, nextJob, engineChanges, settings>>

\* the page is rendered and the call of the backend for it is made
\* (extractTableWithTextract, ocrWithGoogleVision, ocrWithOcrSpace or
\* tesseractWorker.recognize)
CanRecognize(run) == run.pc = "page"

\* the backend is called for the page with the image `image`
BackendCalled(run, pageNumber, image) ==
  [run EXCEPT !.pc = "recognizing",
              !.called = Append(@, pageNumber),
              !.images = Append(@, image),
              !.inFlight = @ \cup {pageNumber}]

\* engine === 'tesseract' && opencvApiUrl.trim()
NeedsPreprocessing(run) == run.engine = "tesseract" /\ run.opencvApiUrl # ""

Recognize(r) ==
  /\ r \in RunIds /\ CanRecognize(runs[r])
  /\ runs[r].processedCount < Len(runs[r].pagesToProcess)
  /\ LET pageNumber == runs[r].pagesToProcess[runs[r].processedCount + 1]
         run == [runs[r] EXCEPT !.rendered = Append(@, pageNumber)]
     IN runs' = [runs EXCEPT ![r] =
                   IF NeedsPreprocessing(run)
                   THEN [run EXCEPT !.pc = "preprocessing"]
                   ELSE BackendCalled(run, pageNumber, "original")]
  /\ UNCHANGED <<files, ocrEngine, reprocessingFileId, reOcrFileId, previewing,
                 previewJobs, nextJob, engineChanges, settings>>
  /\ toast' = None

\* a pre-processing whose failure reaches the catch block of the run
PreprocessFailureIsFatal(r, outcome) ==
  /\ r \in RunIds /\ runs[r].pc = "preprocessing"
  /\ IF outcome = "processed"
     THEN /\ runs' = [runs EXCEPT ![r] =
                        BackendCalled(runs[r],
                                      runs[r].pagesToProcess[runs[r].processedCount + 1],
                                      "processed")]
          /\ toast' = None
          /\ UNCHANGED <<files, reOcrFileId>>
     ELSE Catch(r, runs[r], CHOOSE thrown \in Thrown : TRUE)
  /\ UNCHANGED <<ocrEngine, reprocessingFileId, previewing,
                 previewJobs, nextJob, engineChanges, settings>>

\* the pre-processing of the rendered page ends: its try block sets
\* imageToRecognize or throws into its own catch block, which only warns;
\* the backend is then called with the image that resulted
Preprocess(r, outcome) ==
  /\ r \in RunIds /\ runs[r].pc = "preprocessing"
  /\ LET pageNumber == runs[r].pagesToProcess[runs[r].processedCount + 1]
         imageToRecognize == IF outcome = "processed" THEN "processed" ELSE "original"
     IN runs' = [runs EXCEPT ![r] = BackendCalled(runs[r], pageNumber, imageToRecognize)]
  /\ toast' = IF outcome = "processed" THEN None ELSE "OpenCV Pre-processing Failed"
  /\ UNCHANGED <<files, ocrEngine, reprocessingFileId, reOcrFileId, previewing,
                 previewJobs, nextJob, engineChanges, settings>>

\* pdf.getPage or page.render rejects
RenderFails(r, thrown) ==
  /\ r \in RunIds /\ runs[r].pc = "page"
  /\ Catch(r, runs[r], thrown)
  /\ UNCHANGED <<ocrEngine, reprocessingFileId, previewing, previewJobs, nextJob, engineChanges, settings>>

\* the call of the backend returns: the result is accumulated,
\* processedCount++ and the progress update; `rows` is the number of rows
\* the table-structuring backend found on the page
Recognized(run, r, pageNumber, rows) ==
  IF run.engine = "textract"
  THEN [run EXCEPT !.allStructuredData =
                      @ \o [i \in 1..rows |-> [page |-> pageNumber, run |-> r]],
                   !.processedCount = @ + 1, !.inFlight = {}]
  ELSE [run EXCEPT !.newExtractedDataForFile =
                      Append(@, [page |-> pageNumber, tsv |-> OcrText(r)]),
                   !.processedCount = @ + 1, !.inFlight = {}]

\* ocrSpaceFlow finds no key, getTextractClient finds no credentials
ConfigurationMissing(run) ==
  \/ run.engine = "ocrspace" /\ run.ocrSpaceApiKey = ""
  \/ run.engine = "textract" /\ ~awsCredentials

\* what the call of the backend can throw
BackendFailures(run) ==
  IF ConfigurationMissing(run) THEN {ConfigurationErrors[run.engine]} ELSE Thrown

RecognizeReturns(r, rows) ==
  /\ r \in RunIds /\ runs[r].pc = "recognizing"
  /\ ~ConfigurationMissing(runs[r])
  /\ runs[r].engine = "textract" \/ rows = 1
  /\ LET pageNumber == runs[r].pagesToProcess[runs[r].processedCount + 1]
         run == Recognized(runs[r], r, pageNumber, rows)
         progress == RunProgress(run.processedCount, Len(run.pagesToProcess))
     IN Continue(r, run, MapFile(files, run.doc,
                                 [files[run.doc] EXCEPT !.progress = progress]))
  /\ UNCHANGED <<ocrEngine, reprocessingFileId, previewing, previewJobs, nextJob, engineChanges, settings>>
  /\ toast' = None

\* the call of the backend rejects
RecognizeFails(r, thrown) ==
  /\ r \in RunIds /\ runs[r].pc = "recognizing"
  /\ thrown \in BackendFailures(runs[r])
  /\ Catch(r, runs[r], thrown)
  /\ UNCHANGED <<ocrEngine, reprocessingFileId, previewing, previewJobs, nextJob, engineChanges, settings>>

\* tesseractWorker.terminate() returns; the final update follows in the
\* same synchronous block
Terminate(r) ==
  /\ r \in RunIds /\ runs[r].pc = "terminating"
  /\ LET run == [runs[r] EXCEPT !.tesseractWorker = "terminated"]
     IN /\ runs' = [runs EXCEPT ![r] = Returned(run, "completed")]
        /\ files' = MapFile(files, run.doc, Completed(files[run.doc], run, r))
  /\ ReOcrFinally(r)
  /\ UNCHANGED <<ocrEngine, reprocessingFileId, previewing, previewJobs, nextJob, engineChanges, settings>>
  /\ toast' = None

\* FileList: "Process N Selected Page(s)".  The button is disabled for an
\* empty selection; the handler makes the same test again
handleStartProcessing(d) ==
  /\ SelectionPanelVisible(d)
  /\ IF Len(files[d].selectedPages) = 0
     THEN /\ toast' = "No Pages Selected"
          /\ UNCHANGED <<files, runs>>
     ELSE /\ processFile(d, languages, ocrEngine, FALSE)
          /\ toast' = None
  /\ UNCHANGED <<ocrEngine, reprocessingFileId, reOcrFileId, previewing,
                 previewJobs, nextJob, engineChanges, settings>>

\* FileList: "Re-run OCR on N Region(s)"
ReOcrEnabled(d) ==
  /\ RawPanelVisible(d)
  /\ ocrEngine = "tesseract"
  /\ Len(files[d].selectionRectangles) > 0
  /\ ~IsActionDisabled(d)

\* a re-recognition that takes the engine and the languages of the page
handleReOcrWithGlobalSettings(d) ==
  /\ ReOcrEnabled(d)
  /\ files[d].ocrEngine # None /\ files[d].languages # Undefined
  /\ reOcrFileId' = d
  /\ processFile(d, languages, ocrEngine, TRUE)
  /\ UNCHANGED <<ocrEngine, reprocessingFileId, previewing, previewJobs, nextJob, engineChanges, settings>>
  /\ toast' = None

\* the stored engine and languages are set whenever the button is rendered,
\* so the branch "Could not find the necessary information" is never taken
\* from FileList
handleReOcr(d) ==
  /\ ReOcrEnabled(d)
  /\ files[d].ocrEngine # None /\ files[d].languages # Undefined
  /\ reOcrFileId' = d
  /\ processFile(d, TheValue(files[d].languages), files[d].ocrEngine, TRUE)
  /\ UNCHANGED <<ocrEngine, reprocessingFileId, previewing, previewJobs, nextJob, engineChanges, settings>>
  /\ toast' = None

\* ------------------------------------------------ structured previews
\* a text of the page that takes the recognized text for an empty edit
PageTextUnlessEmpty(f, pageData) ==
  IF pageData.page \in DOMAIN f.manuallyEditedPages
     /\ f.manuallyEditedPages[pageData.page] # <<>>
  THEN f.manuallyEditedPages[pageData.page]
  ELSE pageData.tsv

\* processTask(file, task): one entry per page of the extracted data, in
\* page order, made from the page's text (the manual edit when there is
\* one) and the task's rules; nothing for a blank header list
PageText(f, pageData) ==
  IF pageData.page \in DOMAIN f.manuallyEditedPages
  THEN f.manuallyEditedPages[pageData.page]
  ELSE pageData.tsv

ProcessTask(f, task) ==
  IF Len(f.extractedData) = 0 \/ task.rules = 0
  THEN <<>>
  ELSE [i \in 1..Len(f.extractedData) |->
          [page |-> f.extractedData[i].page,
           text |-> PageText(f, f.extractedData[i]),
           rules |-> task.rules]]

\* FileList: "Preview Data" of a task
PreviewEnabled(d, t) ==
  /\ TaskPanelVisible(d)
  /\ TaskIndex(files[d], t) # {}
  /\ ~IsActionDisabled(d)

handlePreviewData(d, t) ==
  /\ PreviewEnabled(d, t)
  /\ LET task == files[d].extractionTasks[CHOOSE i \in TaskIndex(files[d], t) : TRUE]
     IN IF task.rules = 0
        THEN /\ toast' = "Data Keys Required"
             /\ UNCHANGED previewing
        ELSE /\ previewing' = Some([doc |-> d, task |-> t,
                                    structuredData |-> ProcessTask(files[d], task)])
             /\ toast' = None
  /\ UNCHANGED <<files, ocrEngine, reprocessingFileId, reOcrFileId, previewJobs, nextJob, runs, engineChanges, settings>>

PreviewStored(f, t, structuredData) ==
  [f EXCEPT !.extractionTasks =
     [i \in 1..Len(@) |-> IF @[i].id = t
                          THEN [@[i] EXCEPT !.structuredDataPreview = Some(structuredData)]
                          ELSE @[i]]]

\* `await processTask(file, task)` returns
PreviewReturns ==
  /\ previewing # Undefined
  /\ LET call == TheValue(previewing)
     IN files' = MapFile(files, call.doc,
          PreviewStored(files[call.doc], call.task, call.structuredData))
  /\ previewing' = Undefined
  /\ UNCHANGED <<ocrEngine, reprocessingFileId, reOcrFileId, previewJobs, nextJob, runs, engineChanges, settings>>
  /\ toast' = None

\* cleanOcrData rejects
PreviewRejects ==
  /\ previewing # Undefined
  /\ previewing' = Undefined
  /\ toast' = "Preview Failed"
  /\ UNCHANGED <<files, ocrEngine, reprocessingFileId, reOcrFileId, previewJobs, nextJob, runs, engineChanges, settings>>

\* ------------------------------------------------ generateAndDownloadExcel
\* FileCardActions: "Download Excel" of a completed item
DownloadEnabled(d) ==
  /\ Has(d)
  /\ files[d].status = "completed"
  /\ ~IsActionDisabled(d)

\* a sheet of the workbook: its name and its rows, or the one row that
\* says that there is no data
DataSheet(name, rows) == [name |-> name, rows |-> rows, placeholder |-> FALSE]
PlaceholderSheet(name) == [name |-> name, rows |-> <<>>, placeholder |-> TRUE]

\* the sheet the loop makes for a task, if any: from the cached preview
\* when there is one, else from processTask
TaskSheet(f, task) ==
  LET finalData == IF task.structuredDataPreview # Undefined
                   THEN TheValue(task.structuredDataPreview)
                   ELSE ProcessTask(f, task)
  IN IF Len(finalData) > 0 THEN Some(DataSheet(task.name, finalData))
     ELSE IF task.rules # 0 THEN Some(PlaceholderSheet(task.name))
     ELSE Undefined

\* the loop over the tasks from the i-th on; XLSX.utils.book_append_sheet
\* throws for a name the workbook already has
RECURSIVE TaskSheets(_, _, _)
TaskSheets(f, i, sheets) ==
  IF i > Len(f.extractionTasks) THEN [thrown |-> FALSE, sheets |-> sheets]
  ELSE LET sheet == TaskSheet(f, f.extractionTasks[i])
       IN IF sheet = Undefined THEN TaskSheets(f, i + 1, sheets)
          ELSE IF \E k \in 1..Len(sheets) : sheets[k].name = TheValue(sheet).name
          THEN [thrown |-> TRUE, sheets |-> sheets]
          ELSE TaskSheets(f, i + 1, Append(sheets, TheValue(sheet)))

\* what the export of f ends with: the destructive toast it shows, if any,
\* and the sheets of the workbook it downloads
Exported(f) ==
  IF f.ocrEngine = "textract"
  THEN [toast |-> None,
        sheets |-> IF f.structuredDataPreview # Undefined
                      /\ Len(TheValue(f.structuredDataPreview)) > 0
                   THEN <<DataSheet("Extracted Data", TheValue(f.structuredDataPreview))>>
                   ELSE <<PlaceholderSheet("No Data Found")>>]
  ELSE IF Len(f.extractionTasks) = 0
  THEN [toast |-> "No Tasks Defined", sheets |-> <<>>]
  ELSE LET loop == TaskSheets(f, 1, <<>>)
       IN IF loop.thrown THEN [toast |-> "Download Failed", sheets |-> <<>>]
          ELSE IF Len(loop.sheets) = 0 THEN [toast |-> "Export Failed", sheets |-> <<>>]
          ELSE [toast |-> None, sheets |-> loop.sheets]

\* the export reads the document it was called with and writes no document;
\* the controls of the document are disabled until it ends
generateAndDownloadExcel(d) ==
  /\ DownloadEnabled(d)
  /\ LET export == Exported(files[d])
     IN /\ toast' = export.toast
        /\ workbook' = IF export.toast = None
                       THEN Some([doc |-> d, sheets |-> export.sheets])
                       ELSE Undefined
  /\ UNCHANGED <<files, ocrEngine, reprocessingFileId, reOcrFileId, previewing,
                 previewJobs, nextJob, runs, engineChanges, languages,
                 ocrSpaceApiKey, opencvApiUrl, awsCredentials, pureCall,
                 charWhitelist, startedBeforeClear>>

\* ---------------------------------------------------------- specification
TaskIds == 1..(MaxTasks + 1)

\* the steps of the calls of processFile that are in flight
RunStep ==
  \/ \E r \in RunIds : SetUp(r)
  \/ \E r \in RunIds, thrown \in Thrown, created \in BOOLEAN :
        SetUpFails(r, thrown, created)
  \/ \E r \in RunIds : Recognize(r)
  \/ \E r \in RunIds, thrown \in Thrown : RenderFails(r, thrown)
  \/ \E r \in RunIds, rows \in 0..1 : RecognizeReturns(r, rows)
  \/ \E r \in RunIds, thrown \in Thrown \cup {ConfigurationErrors[e] : e \in DOMAIN ConfigurationErrors} :
        RecognizeFails(r, thrown)
  \/ \E r \in RunIds : Terminate(r)

\* The pipeline: the life of the documents from the upload to the end of
\* their runs, with the region selection that enables re-recognition.
Next ==
  \/ \E e \in Engines : SetOcrEngine(e)
  \/ setOcrSpaceApiKey("key")
  \/ \E d \in DocIds : onFilesAdded(d)
  \/ clearAll
  \/ \E j \in DOMAIN previewJobs : PreviewPage(j)
  \/ \E j \in DOMAIN previewJobs, thrown \in Thrown : PreviewFails(j, thrown)
  \/ \E d \in DocIds, page \in Pages, isSelected \in BOOLEAN :
        handlePageSelectionChange(d, page, isSelected)
  \/ \E d \in DocIds, select \in BOOLEAN : handleSelectAllPages(d, select)
  \/ \E d \in DocIds : handleStartProcessing(d)
  \/ \E d \in DocIds : handleReprocess(d)
  \/ \E d \in DocIds : handleReOcr(d)
  \/ RunStep
  \/ \E d \in DocIds, page \in Pages, rect \in Rects : handleMouseUp(d, page, rect)
  \/ \E d \in DocIds : ClearSelections(d)

Spec == Init /\ [][Next]_vars

\* The review of a recognized document: the edits of the raw text, of the
\* rules and of the region selection, the structured previews, and the runs
\* (first recognition and re-recognition) they interleave with.
NextEdits ==
  \/ \E d \in DocIds : onFilesAdded(d)
  \/ \E j \in DOMAIN previewJobs : PreviewPage(j)
  \/ \E d \in DocIds, select \in BOOLEAN : handleSelectAllPages(d, select)
  \/ \E d \in DocIds : handleStartProcessing(d)
  \/ \E d \in DocIds : handleReOcr(d)
  \/ RunStep
  \/ \E d \in DocIds, page \in Pages, rect \in Rects : handleMouseUp(d, page, rect)
  \/ \E d \in DocIds : ClearSelections(d)
  \/ \E d \in DocIds, page \in Pages, t \in Texts : handleTextChange(d, page, t)
  \/ \E d \in DocIds : handleAddTask(d)
  \/ \E d \in DocIds, t \in TaskIds : handleRemoveTask(d, t)
  \/ \E d \in DocIds, t \in TaskIds, rules \in Rules : handleUpdateTask(d, t, rules)
  \/ \E d \in DocIds, t \in TaskIds : handlePreviewData(d, t)
  \/ PreviewReturns
  \/ PreviewRejects

SpecEdits == Init /\ [][NextEdits]_vars

\* The raw-text edits of a recognized document next to Clear All: a document
\* can be cleared and added again while calls made for it are in flight.
NextEditsCleared ==
  \/ \E d \in DocIds : onFilesAdded(d)
  \/ clearAll
  \/ \E j \in DOMAIN previewJobs : PreviewPage(j)
  \/ \E d \in DocIds, select \in BOOLEAN : handleSelectAllPages(d, select)
  \/ \E d \in DocIds : handleStartProcessing(d)
  \/ \E d \in DocIds : handleReOcr(d)
  \/ RunStep
  \/ \E d \in DocIds, page \in Pages, rect \in Rects : handleMouseUp(d, page, rect)
  \/ \E d \in DocIds, page \in Pages, t \in Texts : handleTextChange(d, page, t)

SpecEditsCleared == Init /\ [][NextEditsCleared]_vars

\* The page after this use: a document was added, its previews were
\* generated, all its pages were selected and its processing was started;
\* Clear All was pressed while that run was setting up, and the same file
\* was added again.  The calls in flight are numbered from 1.
ReAddedAfterClear ==
  /\ files = [d \in {"a"} |-> NewFile]
  /\ ocrEngine = "tesseract"
  /\ reprocessingFileId = None
  /\ reOcrFileId = None
  /\ previewing = Undefined
  /\ previewJobs = [j \in {1} |-> PreviewJob("a", FALSE)]
  /\ nextJob = 1
  /\ engineChanges = 0
  /\ languages = <<"eng">>
  /\ ocrSpaceApiKey = ""
  /\ opencvApiUrl = ""
  /\ awsCredentials = TRUE
  /\ pureCall = Undefined
  /\ workbook = Undefined
  /\ charWhitelist = ENG_CHARS \o SYMBOLS
  /\ runs = [r \in {1} |->
               NewRun("a", [PreviewsGenerated(NewFile, NumPages) EXCEPT
                              !.selectedPages = SeqFromTo(1, NumPages)],
                      languages, ocrEngine, FALSE)]
  /\ startedBeforeClear = {<<"run", 1>>}
  /\ toast = None

\* Reprocess and the run that follows it, next to a run that Clear All has
\* left in flight.
NextReprocess ==
  \/ \E j \in DOMAIN previewJobs : PreviewPage(j)
  \/ \E j \in DOMAIN previewJobs, thrown \in Thrown : PreviewFails(j, thrown)
  \/ \E d \in DocIds, select \in BOOLEAN : handleSelectAllPages(d, select)
  \/ \E d \in DocIds : handleStartProcessing(d)
  \/ \E d \in DocIds : handleReprocess(d)
  \/ RunStep

SpecReprocess == ReAddedAfterClear /\ [][NextReprocess]_vars

\* The settings: the languages, the key of OCR.space, the URL of the
\* pre-processing service and the credentials of the server, with the runs
\* (first recognition and re-recognition) that read them.
InitSettings ==
  /\ files = EmptyMap
  /\ ocrEngine = "tesseract"
  /\ reprocessingFileId = None
  /\ reOcrFileId = None
  /\ previewing = Undefined
  /\ previewJobs = EmptyMap
  /\ nextJob = 0
  /\ runs = EmptyMap
  /\ engineChanges = 0
  /\ languages = <<"eng">>
  /\ ocrSpaceApiKey = ""
  /\ opencvApiUrl = ""
  /\ awsCredentials \in BOOLEAN
  /\ pureCall = Undefined
  /\ workbook = Undefined
  /\ charWhitelist = ENG_CHARS \o SYMBOLS
  /\ startedBeforeClear = {}
  /\ toast = None

NextSettings ==
  \/ \E e \in Engines : SetOcrEngine(e)
  \/ \E lang \in Languages \cup {"hinglish"}, checked \in BOOLEAN :
        handleLanguageChange(lang, checked)
  \/ \E key \in {"", "key"} : setOcrSpaceApiKey(key)
  \/ \E url \in {"", "url"} : setOpencvApiUrl(url)
  \/ \E d \in DocIds : onFilesAdded(d)
  \/ \E j \in DOMAIN previewJobs : PreviewPage(j)
  \/ \E d \in DocIds, page \in Pages, isSelected \in BOOLEAN :
        handlePageSelectionChange(d, page, isSelected)
  \/ \E d \in DocIds : handleStartProcessing(d)
  \/ \E d \in DocIds : handleReOcr(d)
  \/ RunStep
  \/ \E r \in RunIds, outcome \in PreprocessOutcomes : Preprocess(r, outcome)
  \/ \E d \in DocIds, page \in Pages, rect \in Rects : handleMouseUp(d, page, rect)

SpecSettings == InitSettings /\ [][NextSettings]_vars

\* The Tesseract and OCR.space configuration on its own: the engine, the
\* language checkboxes and the allowed-character field, and the upload of a
\* document.
WhitelistTexts == {<<>>, <<"typed">>}
LanguageOptions == {"eng", "hin", "hinglish"}

NextLanguages ==
  \/ \E e \in Engines : SetOcrEngine(e)
  \/ \E lang \in LanguageOptions, checked \in BOOLEAN : handleLanguageChange(lang, checked)
  \/ \E value \in WhitelistTexts : setCharWhitelist(value)
  \/ \E d \in DocIds : onFilesAdded(d)
  \/ \E j \in DOMAIN previewJobs : PreviewPage(j)

SpecLanguages == Init /\ [][NextLanguages]_vars

\* The tasks of a recognized document and its export: the tasks are added,
\* removed and given rules, previewed, and the workbook is downloaded.
NextExport ==
  \/ \E e \in Engines : SetOcrEngine(e)
  \/ \E d \in DocIds : onFilesAdded(d)
  \/ \E j \in DOMAIN previewJobs : PreviewPage(j)
  \/ \E d \in DocIds : handleSelectAllPages(d, TRUE)
  \/ \E d \in DocIds : handleStartProcessing(d)
  \/ RunStep
  \/ \E d \in DocIds : handleAddTask(d)
  \/ \E d \in DocIds, t \in TaskIds : handleRemoveTask(d, t)
  \/ \E d \in DocIds, t \in TaskIds, rules \in Rules : handleUpdateTask(d, t, rules)
  \/ \E d \in DocIds, t \in TaskIds : handlePreviewData(d, t)
  \/ PreviewReturns
  \/ \E d \in DocIds : generateAndDownloadExcel(d)

SpecExport == Init /\ [][NextExport]_vars

\* the steps of one call of processFile
RunStepOf(r) ==
  \/ SetUp(r)
  \/ \E thrown \in Thrown, created \in BOOLEAN : SetUpFails(r, thrown, created)
  \/ Recognize(r)
  \/ \E thrown \in Thrown : RenderFails(r, thrown)
  \/ \E rows \in 0..1 : RecognizeReturns(r, rows)
  \/ \E thrown \in Thrown \cup {ConfigurationErrors[e] : e \in DOMAIN ConfigurationErrors} :
        RecognizeFails(r, thrown)
  \/ Terminate(r)

\* Two documents in the list, each with its own preview generation and its
\* own run, going on at the same time.
TwoDocIds == {"a", "b"}

NextTwoDocs ==
  \/ \E d \in TwoDocIds : onFilesAdded(d)
  \/ \E j \in DOMAIN previewJobs : PreviewPage(j)
  \/ \E j \in DOMAIN previewJobs, thrown \in Thrown : PreviewFails(j, thrown)
  \/ \E d \in TwoDocIds, select \in BOOLEAN : handleSelectAllPages(d, select)
  \/ \E d \in TwoDocIds : handleStartProcessing(d)
  \/ RunStep
  \/ \E d \in TwoDocIds, page \in Pages, t \in Texts : handleTextChange(d, page, t)
  \/ \E d \in TwoDocIds, page \in Pages, rect \in Rects : handleMouseUp(d, page, rect)
  \/ \E d \in TwoDocIds : handleAddTask(d)
  \/ \E d \in TwoDocIds, t \in TaskIds : handleRemoveTask(d, t)
  \/ \E d \in TwoDocIds : handleReOcr(d)
  \/ \E d \in TwoDocIds : ClearSelections(d)

SpecTwoDocs == Init /\ [][NextTwoDocs]_vars

\* The pipeline with the pre-processing service, under the assumption that
\* no await of a run stays pending for ever: the rendering, the
\* pre-processing and the call of the backend each return or reject.
NextLive ==
  \/ \E e \in Engines : SetOcrEngine(e)
  \/ setOpencvApiUrl("url")
  \/ \E d \in DocIds : onFilesAdded(d)
  \/ clearAll
  \/ \E j \in DOMAIN previewJobs : PreviewPage(j)
  \/ \E j \in DOMAIN previewJobs, thrown \in Thrown : PreviewFails(j, thrown)
  \/ \E d \in DocIds : handleSelectAllPages(d, TRUE)
  \/ \E d \in DocIds : handleStartProcessing(d)
  \/ \E d \in DocIds : handleReOcr(d)
  \/ \E d \in DocIds, page \in Pages, rect \in Rects : handleMouseUp(d, page, rect)
  \/ RunStep
  \/ \E r \in RunIds, outcome \in PreprocessOutcomes : Preprocess(r, outcome)

AwaitEnds(r) ==
  \/ RunStepOf(r)
  \/ \E outcome \in PreprocessOutcomes : Preprocess(r, outcome)

SpecLive ==
  /\ Init /\ [][NextLive]_vars
  /\ \A r \in 1..MaxRuns : WF_vars(AwaitEnds(r))

\* ------------------------------------------ extractTableWithTextract
\* the texts getCellText returns
CellTexts == {"", "h", "v"}
TableCells == (1..MaxTableRows) \X (1..MaxTableCols)

\* tableData after the loop over the cells of the first table: the cells
\* that the response holds, each with its text
TableDatas == [TableCells -> {Undefined} \cup {Some(t) : t \in CellTexts}]

Max(a, b) == IF a > b THEN a ELSE b

RECURSIVE MaxOf(_)
MaxOf(S) == IF S = {} THEN 0
            ELSE LET x == CHOOSE y \in S : TRUE IN Max(x, MaxOf(S \ {x}))

maxRow(tableData) == MaxOf({c[1] : c \in {c \in TableCells : tableData[c] # Undefined}})
maxCol(tableData) == MaxOf({c[2] : c \in {c \in TableCells : tableData[c] # Undefined}})

\* tableData[r]?.[c] || ''
RowsAsArrays(tableData) ==
  [r \in 1..maxRow(tableData) |->
     [c \in 1..maxCol(tableData) |->
        IF tableData[<<r, c>>] = Undefined THEN "" ELSE TheValue(tableData[<<r, c>>])]]

\* `Column ${i + 1}` of the 0-based index i, for the 1-based index c
ColumnName(c) == "Column " \o ToString(c)

\* the object headers.forEach builds from a row: a later column replaces
\* the entry of an earlier column with the same header
RowObject(headers, row) ==
  [header \in Range(headers) |->
     LET index == CHOOSE i \in 1..Len(headers) :
                    /\ headers[i] = header
                    /\ \A j \in (i + 1)..Len(headers) : headers[j] # header
     IN IF index \in DOMAIN row THEN row[index] ELSE ""]

\* the tail of the flow, from `if (rowsAsArrays.length < 1)`; `shifted` is
\* rowsAsArrays after the shift() that takes the headers
StructuredData(rowsAsArrays) ==
  IF Len(rowsAsArrays) < 1 THEN <<>>
  ELSE LET headers == IF Len(rowsAsArrays) > 1 THEN rowsAsArrays[1]
                      ELSE [c \in 1..Len(rowsAsArrays[1]) |-> ColumnName(c)]
           shifted == IF Len(rowsAsArrays) > 1 THEN Tail(rowsAsArrays)
                      ELSE rowsAsArrays
           dataRows == IF Len(shifted) > 1 THEN shifted ELSE << <<>> >>
       IN IF Len(shifted) = 1 THEN <<>>
          ELSE [k \in 1..Len(dataRows) |-> RowObject(headers, dataRows[k])]

\* a call of the flow for a page whose first table is tableData
TextractCall(tableData) ==
  [flow |-> "extractTableFlow", input |-> tableData, output |-> Undefined]

PageIdle ==
  /\ files = EmptyMap
  /\ ocrEngine = "tesseract"
  /\ reprocessingFileId = None
  /\ reOcrFileId = None
  /\ previewing = Undefined
  /\ previewJobs = EmptyMap
  /\ nextJob = 0
  /\ runs = EmptyMap
  /\ engineChanges = 0
  /\ languages = <<"eng">>
  /\ ocrSpaceApiKey = ""
  /\ opencvApiUrl = ""
  /\ awsCredentials = TRUE
  /\ workbook = Undefined
  /\ charWhitelist = ENG_CHARS \o SYMBOLS
  /\ startedBeforeClear = {}
  /\ toast = None

InitTextract ==
  /\ PageIdle
  /\ pureCall \in {Some(TextractCall(tableData)) : tableData \in TableDatas}

extractTableFlow ==
  /\ pureCall # Undefined
  /\ TheValue(pureCall).flow = "extractTableFlow"
  /\ TheValue(pureCall).output = Undefined
  /\ pureCall' = Some([TheValue(pureCall) EXCEPT
                         !.output = Some(StructuredData(RowsAsArrays(
                                        TheValue(pureCall).input)))])
  /\ UNCHANGED <<files, ocrEngine, reprocessingFileId, reOcrFileId, previewing,
                 previewJobs, nextJob, runs, engineChanges, languages,
                 ocrSpaceApiKey, opencvApiUrl, awsCredentials, workbook,
                 charWhitelist, startedBeforeClear,
                 toast>>

SpecTextract == InitTextract /\ [][extractTableFlow]_vars

\* ------------------------------------------------ processTask, cleanOcrData
\* A string is the sequence of its characters.
Chars == {"a", "A", "b", "\t", "\n"}
Whitespace == {"\t", "\n", " "}

StartsWith(text, pat) ==
  Len(pat) <= Len(text) /\ SubSeq(text, 1, Len(pat)) = pat

\* the text String.prototype.replace inserts for the replacement string rep
\* at a match: "$$" stands for "$" and "$&" for the matched substring (the
\* patterns with "`", "'" and "<" do not occur in the values used here, and
\* "$n" is literal for a pattern without groups)
RECURSIVE Replacement(_, _)
Replacement(rep, match) ==
  IF rep = <<>> THEN <<>>
  ELSE IF StartsWith(rep, <<"$", "$">>)
  THEN <<"$">> \o Replacement(SubSeq(rep, 3, Len(rep)), match)
  ELSE IF StartsWith(rep, <<"$", "&">>)
  THEN match \o Replacement(SubSeq(rep, 3, Len(rep)), match)
  ELSE <<Head(rep)>> \o Replacement(Tail(rep), match)

\* text.replace(new RegExp(escapeRegExp(pat), 'g'), rep), pat not empty
RECURSIVE ReplaceAll(_, _, _)
ReplaceAll(text, pat, rep) ==
  IF text = <<>> THEN <<>>
  ELSE IF StartsWith(text, pat)
  THEN Replacement(rep, pat) \o ReplaceAll(SubSeq(text, Len(pat) + 1, Len(text)), pat, rep)
  ELSE <<Head(text)>> \o ReplaceAll(Tail(text), pat, rep)

\* text.split(sep), sep not empty; `current` is the piece being read
RECURSIVE SplitFrom(_, _, _)
SplitFrom(text, sep, current) ==
  IF text = <<>> THEN <<current>>
  ELSE IF StartsWith(text, sep)
  THEN <<current>> \o SplitFrom(SubSeq(text, Len(sep) + 1, Len(text)), sep, <<>>)
  ELSE SplitFrom(Tail(text), sep, Append(current, Head(text)))

Split(text, sep) == SplitFrom(text, sep, <<>>)

\* lines.join('\n')
RECURSIVE Join(_, _)
Join(pieces, sep) ==
  IF Len(pieces) = 0 THEN <<>>
  ELSE IF Len(pieces) = 1 THEN pieces[1]
  ELSE pieces[1] \o sep \o Join(Tail(pieces), sep)

RECURSIVE TrimStart(_)
TrimStart(text) ==
  IF text # <<>> /\ Head(text) \in Whitespace THEN TrimStart(Tail(text)) ELSE text

RECURSIVE TrimEnd(_)
TrimEnd(text) ==
  IF text # <<>> /\ text[Len(text)] \in Whitespace
  THEN TrimEnd(SubSeq(text, 1, Len(text) - 1)) ELSE text

Trim(text) == TrimEnd(TrimStart(text))

ToLowerCase(text) == [i \in 1..Len(text) |-> IF text[i] = "A" THEN "a" ELSE text[i]]

Includes(text, pat) ==
  \E i \in 1..(Len(text) + 1) : StartsWith(SubSeq(text, i, Len(text)), pat)

\* String(undefined), what replace() inserts for a missing replacement
UndefinedText == <<"u", "n", "d", "e", "f", "i", "n", "e", "d">>

\* cleanOcrData: one object per non-blank line, keyed by the headers, with
\* the trimmed pieces of the line; objects without any value are dropped
\* an object that holds the pieces of the line as they are
CleanRowObjectUntrimmed(headers, values) ==
  [header \in Range(headers) |->
     LET index == CHOOSE i \in 1..Len(headers) : headers[i] = header
     IN IF index \in DOMAIN values THEN values[index] ELSE <<>>]

CleanRowObject(headers, values) ==
  [header \in Range(headers) |->
     LET index == CHOOSE i \in 1..Len(headers) :
                    /\ headers[i] = header
                    /\ \A j \in (i + 1)..Len(headers) : headers[j] # header
     IN IF index \in DOMAIN values THEN Trim(values[index]) ELSE <<>>]

\* a parser that returns the object of every non-blank line
cleanOcrDataKeepingEmptyRows(rawText, headers, separator) ==
  IF Len(headers) = 0 THEN <<>>
  ELSE LET NotBlank(line) == Trim(line) # <<>>
           lines == SelectSeq(Split(rawText, <<"\n">>), NotBlank)
       IN [i \in 1..Len(lines) |->
             CleanRowObject(headers, Split(lines[i], separator))]

cleanOcrData(rawText, headers, separator) ==
  IF Len(headers) = 0 THEN <<>>
  ELSE LET NotBlank(line) == Trim(line) # <<>>
           lines == SelectSeq(Split(rawText, <<"\n">>), NotBlank)
           HasValue(obj) == \E header \in DOMAIN obj : Len(obj[header]) > 0
       IN SelectSeq([i \in 1..Len(lines) |->
                       CleanRowObject(headers, Split(lines[i], separator))],
                    HasValue)

\* a rule list that applies the corrections whenever there is a find value
UseCorrectionsWithAnyReplaceList(findValues, replaceValues) == Len(findValues) > 0

\* const useCorrections = ...
UseCorrections(findValues, replaceValues) ==
  Len(findValues) > 0 /\ Len(findValues) = Len(replaceValues)

\* the loop over findValues, from index i on
RECURSIVE Corrected(_, _, _, _)
Corrected(pageText, findValues, replaceValues, i) ==
  IF i > Len(findValues) THEN pageText
  ELSE Corrected(IF findValues[i] # <<>>
                 THEN ReplaceAll(pageText, findValues[i],
                                 IF i \in DOMAIN replaceValues
                                 THEN replaceValues[i] ELSE UndefinedText)
                 ELSE pageText,
                 findValues, replaceValues, i + 1)

\* task.eliminators.split(',').map(e => e.trim().toLowerCase()).filter(Boolean)
Eliminators(task) ==
  LET NotEmpty(e) == e # <<>>
  IN SelectSeq([i \in 1..Len(task.eliminators) |->
                  ToLowerCase(Trim(task.eliminators[i]))], NotEmpty)

\* a filter that compares the line as it is written
EliminatedCaseSensitive(pageText, eliminators) ==
  IF Len(eliminators) = 0 THEN pageText
  ELSE LET Kept(line) == ~\E i \in 1..Len(eliminators) : Includes(line, eliminators[i])
       IN Join(SelectSeq(Split(pageText, <<"\n">>), Kept), <<"\n">>)

Eliminated(pageText, eliminators) ==
  IF Len(eliminators) = 0 THEN pageText
  ELSE LET Kept(line) == ~\E i \in 1..Len(eliminators) :
                            Includes(ToLowerCase(line), eliminators[i])
       IN Join(SelectSeq(Split(pageText, <<"\n">>), Kept), <<"\n">>)

\* the body of processTask's loop for one page: the rows it pushes
StructuredDataForPage(text, task) ==
  LET pageText == Eliminated(IF UseCorrections(task.findValues, task.replaceValues)
                             THEN Corrected(text, task.findValues, task.replaceValues, 1)
                             ELSE text,
                             Eliminators(task))
      separator == IF task.columnSeparators = <<>> THEN <<"\t">> ELSE task.columnSeparators
  IN IF Trim(pageText) = <<>> THEN <<>>
     ELSE cleanOcrData(pageText, task.columnHeaders, separator)

\* processTask(file, task) for the texts of the file's pages in page order
RECURSIVE AllStructuredData(_, _)
AllStructuredData(pageTexts, task) ==
  IF Len(task.columnHeaders) = 0 \/ Len(pageTexts) = 0 THEN <<>>
  ELSE StructuredDataForPage(Head(pageTexts), task)
         \o AllStructuredData(Tail(pageTexts), task)

\* the inputs: texts, tasks whose lists are given as split(',') leaves them
RECURSIVE SeqsUpTo(_, _)
SeqsUpTo(S, n) ==
  IF n = 0 THEN {<<>>}
  ELSE LET shorter == SeqsUpTo(S, n - 1)
       IN shorter \cup {Append(q, x) : q \in shorter, x \in S}

PageTexts == SeqsUpTo(Chars, MaxChars)
FindValues == {<<>>, <<"a">>, <<"A">>}
ReplaceValues == {<<>>, <<"a">>, <<"\t">>, <<"$", "&">>}

RuleTasks ==
  [findValues : SeqsUpTo(FindValues, MaxValues),
   replaceValues : SeqsUpTo(ReplaceValues, MaxValues),
   eliminators : {<<>>, << <<"A">> >>},
   columnHeaders : {<<>>, <<"k">>, <<"k", "l">>},
   columnSeparators : {<<>>, <<"b">>}]

ProcessTaskCall(text, task) ==
  [flow |-> "processTask", input |-> [pageTexts |-> <<text>>, task |-> task],
   output |-> Undefined]

InitProcessTask ==
  /\ PageIdle
  /\ pureCall \in {Some(ProcessTaskCall(text, task)) : text \in PageTexts, task \in RuleTasks}

processTask ==
  /\ pureCall # Undefined
  /\ TheValue(pureCall).flow = "processTask"
  /\ TheValue(pureCall).output = Undefined
  /\ pureCall' = Some([TheValue(pureCall) EXCEPT
                         !.output = Some(AllStructuredData(
                                       TheValue(pureCall).input.pageTexts,
                                       TheValue(pureCall).input.task))])
  /\ UNCHANGED <<files, ocrEngine, reprocessingFileId, reOcrFileId, previewing,
                 previewJobs, nextJob, runs, engineChanges, languages,
                 ocrSpaceApiKey, opencvApiUrl, awsCredentials, workbook,
                 charWhitelist, startedBeforeClear,
                 toast>>

SpecProcessTask == InitProcessTask /\ [][processTask]_vars

\* ------------------------------------------- processTask on a document
\* file.extractedData.sort((a, b) => a.page - b.page)
SortedPages(extractedData) ==
  LET pageNumbers == SortAsc([i \in 1..Len(extractedData) |-> extractedData[i].page])
  IN [i \in 1..Len(extractedData) |->
        extractedData[CHOOSE j \in 1..Len(extractedData) :
                        extractedData[j].page = pageNumbers[i]]]

\* the text of each page the loop of processTask reads, in its order
FilePageTexts(file) ==
  LET sortedPages == SortedPages(file.extractedData)
  IN [i \in 1..Len(sortedPages) |-> PageText(file, sortedPages[i])]

\* the inputs: a recognized text and possibly an edited text (the empty
\* text included) for each page of the results, which the runs leave in
\* ascending page order
ShortTexts == {<<>>, <<"a">>, <<"b">>}

ResultFiles ==
  {[extractedData |-> [i \in 1..Len(pages) |-> [page |-> pages[i], tsv |-> tsvs[pages[i]]]],
    manuallyEditedPages |-> edits] :
     pages \in {SortAsc(q) : q \in {q \in SeqsUpTo(Pages, NumPages) :
                                      Cardinality(Range(q)) = Len(q)}},
     tsvs \in [Pages -> ShortTexts],
     edits \in UNION {[S -> ShortTexts] : S \in SUBSET Pages}}

FileTasks ==
  [findValues : {<<>>, << <<"a">> >>},
   replaceValues : {<<>>, << <<"b">> >>},
   eliminators : {<<>>, << <<"A">> >>},
   columnHeaders : {<<>>, <<"k">>},
   columnSeparators : {<<>>}]

ProcessTaskOfFileCall(file, task) ==
  [flow |-> "processTask(file)", input |-> [file |-> file, task |-> task],
   output |-> Undefined]

InitProcessFile ==
  /\ PageIdle
  /\ pureCall \in {Some(ProcessTaskOfFileCall(file, task)) :
                     file \in {f \in ResultFiles :
                                 DOMAIN f.manuallyEditedPages \subseteq
                                   {f.extractedData[i].page : i \in 1..Len(f.extractedData)}},
                     task \in FileTasks}

processTaskOfFile ==
  /\ pureCall # Undefined
  /\ TheValue(pureCall).flow = "processTask(file)"
  /\ TheValue(pureCall).output = Undefined
  /\ pureCall' = Some([TheValue(pureCall) EXCEPT
                         !.output = Some(AllStructuredData(
                                       FilePageTexts(TheValue(pureCall).input.file),
                                       TheValue(pureCall).input.task))])
  /\ UNCHANGED <<files, ocrEngine, reprocessingFileId, reOcrFileId, previewing,
                 previewJobs, nextJob, runs, engineChanges, languages,
                 ocrSpaceApiKey, opencvApiUrl, awsCredentials, workbook,
                 charWhitelist, startedBeforeClear,
                 toast>>

SpecProcessFile == InitProcessFile /\ [][processTaskOfFile]_vars

\* ------------------------------------------------------ Number arithmetic
\* The handlers compute in the Number type: IEEE-754 binary64, round to
\* nearest, ties to even. A positive Number is held as its significant bits,
\* the first one 1, and the exponent of its last bit; zero has no bits.
Precision == 53
Zero == [bits |-> <<>>, exp |-> 0]

\* the bits of a natural number, the first one 1, and back
RECURSIVE BitsOf(_)
BitsOf(n) == IF n = 0 THEN <<>> ELSE Append(BitsOf(n \div 2), n % 2)

RECURSIVE NatOf(_)
NatOf(bits) ==
  IF bits = <<>> THEN 0
  ELSE 2 * NatOf(SubSeq(bits, 1, Len(bits) - 1)) + bits[Len(bits)]

RECURSIVE Increment(_)
Increment(bits) ==
  IF bits = <<>> THEN <<1>>
  ELSE IF bits[Len(bits)] = 0 THEN [bits EXCEPT ![Len(bits)] = 1]
  ELSE Append(Increment(SubSeq(bits, 1, Len(bits) - 1)), 0)

\* the Number nearest to bits * 2^exp (plus a nonzero rest below the last
\* bit when `sticky`): the first Precision bits, rounded to nearest, ties to
\* even
RoundToNumber(bits, exp, sticky) ==
  IF Len(bits) <= Precision
  THEN [bits |-> bits \o [i \in 1..(Precision - Len(bits)) |-> 0],
        exp |-> exp - (Precision - Len(bits))]
  ELSE LET kept == SubSeq(bits, 1, Precision)
           dropped == SubSeq(bits, Precision + 1, Len(bits))
           rest == sticky \/ \E i \in 2..Len(dropped) : dropped[i] = 1
           up == dropped[1] = 1 /\ (rest \/ kept[Precision] = 1)
           rounded == IF up THEN Increment(kept) ELSE kept
           e == exp + Len(dropped)
       IN IF Len(rounded) > Precision
          THEN [bits |-> SubSeq(rounded, 1, Precision), exp |-> e + 1]
          ELSE [bits |-> rounded, exp |-> e]

\* long division: the bits of the quotient found so far, the exponent of
\* the last of them, the remainder r < b
RECURSIVE Quotient(_, _, _, _)
Quotient(bits, exp, r, b) ==
  IF Len(bits) > Precision THEN RoundToNumber(bits, exp, r # 0)
  ELSE LET bit == IF 2 * r >= b THEN 1 ELSE 0
       IN Quotient(IF bits = <<>> /\ bit = 0 THEN <<>> ELSE Append(bits, bit),
                   exp - 1, 2 * r - bit * b, b)

\* a / b of two naturals, b > 0
Divide(a, b) ==
  IF a = 0 THEN Zero ELSE Quotient(BitsOf(a \div b), 0, a % b, b)

\* the bits of bits * n + carry, for naturals n and carry
RECURSIVE TimesNat(_, _, _)
TimesNat(bits, n, carry) ==
  IF bits = <<>> \/ carry < 0 THEN BitsOf(carry)
  ELSE Append(TimesNat(SubSeq(bits, 1, Len(bits) - 1), n,
                       (bits[Len(bits)] * n + carry) \div 2),
              (bits[Len(bits)] * n + carry) % 2)

\* x * n of a Number and a natural
Multiply(x, n) ==
  IF x = Zero \/ n = 0 THEN Zero
  ELSE RoundToNumber(TimesNat(x.bits, n, 0), x.exp, FALSE)

\* the integer part of a Number below 2^Precision, and whether it has no
\* other part
Floor(x) ==
  IF x = Zero \/ Len(x.bits) + x.exp <= 0 THEN 0
  ELSE NatOf(SubSeq(x.bits, 1, Len(x.bits) + x.exp))

IsInteger(x) ==
  \A i \in 1..Len(x.bits) : i > Len(x.bits) + x.exp => x.bits[i] = 0

\* Math.round: the nearest integer, the larger one of two equally near
MathRound(x) ==
  IF x = Zero \/ Len(x.bits) + x.exp < 0 THEN 0
  ELSE Floor(x) + x.bits[Len(x.bits) + x.exp + 1]

\* ------------------------------------------------ FileList.handleMouseUp
\* The handler on its own: the rectangle drawn over a page image of
\* displayWidth x displayHeight, from the pointer position of the mouse
\* down to the one of the mouse up, is scaled to the dimensions of the
\* original page image and appended to the document's rectangles; the
\* rectangles are then drawn over the image, scaled back.
MinSelection == 5
Coordinates == 0..MaxCoordinate
DisplaySizes == {10}
OriginalSizes == {2, 6, 45}
ExistingRects == {<<>>, <<[left |-> 1, top |-> 1, width |-> 9, height |-> 9]>>}

Abs(a) == IF a < 0 THEN 0 - a ELSE a

drawnRect(drawingState, mousePosition) ==
  [left |-> Min(drawingState.startX, mousePosition.x),
   top |-> Min(drawingState.startY, mousePosition.y),
   width |-> Abs(drawingState.startX - mousePosition.x),
   height |-> Abs(drawingState.startY - mousePosition.y)]

\* a rectangle that is stored as it was drawn, in display units
scaledRectUnscaled(drawn, displayWidth, displayHeight, originalDimensions) ==
  [left |-> MathRound(Divide(drawn.left, 1)),
   top |-> MathRound(Divide(drawn.top, 1)),
   width |-> MathRound(Divide(drawn.width, 1)),
   height |-> MathRound(Divide(drawn.height, 1))]

scaledRect(drawn, displayWidth, displayHeight, originalDimensions) ==
  [left |-> MathRound(Multiply(Divide(drawn.left, displayWidth), originalDimensions.width)),
   top |-> MathRound(Multiply(Divide(drawn.top, displayHeight), originalDimensions.height)),
   width |-> MathRound(Multiply(Divide(drawn.width, displayWidth), originalDimensions.width)),
   height |-> MathRound(Multiply(Divide(drawn.height, displayHeight), originalDimensions.height))]

\* the rectangles of the document after the handler
RectanglesAfterMouseUp(input) ==
  LET drawn == drawnRect(input.drawingState, input.mousePosition)
  IN IF drawn.width < MinSelection \/ drawn.height < MinSelection
     THEN input.existingRects
     ELSE Append(input.existingRects,
                 scaledRect(drawn, input.displayWidth, input.displayHeight,
                            input.originalDimensions))

\* the style of the box drawn for a rectangle of the document
displayRect(rect, displayWidth, displayHeight, originalDimensions) ==
  [left |-> Multiply(Divide(rect.left, originalDimensions.width), displayWidth),
   top |-> Multiply(Divide(rect.top, originalDimensions.height), displayHeight),
   width |-> Multiply(Divide(rect.width, originalDimensions.width), displayWidth),
   height |-> Multiply(Divide(rect.height, originalDimensions.height), displayHeight)]

MouseUpCall(drawingState, mousePosition, displayWidth, displayHeight, originalDimensions, existingRects) ==
  [flow |-> "handleMouseUp",
   input |-> [drawingState |-> drawingState, mousePosition |-> mousePosition,
              displayWidth |-> displayWidth, displayHeight |-> displayHeight,
              originalDimensions |-> originalDimensions,
              existingRects |-> existingRects],
   output |-> Undefined]

InitMouseUp ==
  /\ PageIdle
  /\ pureCall \in
       {Some(MouseUpCall([startX |-> sx, startY |-> sy], [x |-> x, y |-> y],
                         dw, dh, [width |-> ow, height |-> oh], rects)) :
          sx \in Coordinates, sy \in Coordinates, x \in Coordinates,
          y \in Coordinates, dw \in DisplaySizes, dh \in DisplaySizes,
          ow \in OriginalSizes, oh \in OriginalSizes, rects \in ExistingRects}

\* the mouse goes up on the page image
mouseUpOnPageImage ==
  /\ pureCall # Undefined
  /\ TheValue(pureCall).flow = "handleMouseUp"
  /\ TheValue(pureCall).output = Undefined
  /\ pureCall' = Some([TheValue(pureCall) EXCEPT
                         !.output = Some([selectionRectangles |->
                                            RectanglesAfterMouseUp(TheValue(pureCall).input),
                                          displayRects |-> Undefined])])
  /\ UNCHANGED <<files, ocrEngine, reprocessingFileId, reOcrFileId, previewing,
                 previewJobs, nextJob, runs, engineChanges, languages,
                 ocrSpaceApiKey, opencvApiUrl, awsCredentials, workbook,
                 charWhitelist, startedBeforeClear,
                 toast>>

\* the next render draws the boxes of the document's rectangles
renderSelectionRectangles ==
  /\ pureCall # Undefined
  /\ TheValue(pureCall).flow = "handleMouseUp"
  /\ TheValue(pureCall).output # Undefined
  /\ TheValue(TheValue(pureCall).output).displayRects = Undefined
  /\ LET input == TheValue(pureCall).input
         rects == TheValue(TheValue(pureCall).output).selectionRectangles
     IN pureCall' = Some([TheValue(pureCall) EXCEPT
                            !.output = Some([selectionRectangles |-> rects,
                                             displayRects |-> Some(
                                               [i \in 1..Len(rects) |->
                                                  displayRect(rects[i], input.displayWidth,
                                                              input.displayHeight,
                                                              input.originalDimensions)])])])
  /\ UNCHANGED <<files, ocrEngine, reprocessingFileId, reOcrFileId, previewing,
                 previewJobs, nextJob, runs, engineChanges, languages,
                 ocrSpaceApiKey, opencvApiUrl, awsCredentials, workbook,
                 charWhitelist, startedBeforeClear,
                 toast>>

NextMouseUp == mouseUpOnPageImage \/ renderSelectionRectangles

SpecMouseUp == InitMouseUp /\ [][NextMouseUp]_vars

\* ------------------------------------------------- the list of documents
\* The list as the array it is: `rendered` is the `files` of the last
\* render, which the handlers of that render close over, and `list` is the
\* state that the updaters of setFiles receive as `prev`.  A File is given
\* by its name, its modification time and its size.
UploadedFiles ==
  {[name |-> "a.pdf", lastModified |-> 1, size |-> 10],
   [name |-> "a.pdf", lastModified |-> 2, size |-> 10],
   [name |-> "b.pdf", lastModified |-> 1, size |-> 10]}

\* `${file.name}-${file.lastModified}-${file.size}`
FileId(file) == <<file.name, "-", file.lastModified, "-", file.size>>

\* the batches a drop or a pick can hand over
Batches ==
  UNION {[1..n -> UploadedFiles] : n \in 1..MaxBatch}

\* addedFiles.map(file => ({ id, file, status: 'pending', ... }))
NewFiles(addedFiles) ==
  [i \in 1..Len(addedFiles) |-> [id |-> FileId(addedFiles[i]), file |-> addedFiles[i]]]

\* newFiles.filter(newFile => !files.some(existingFile => existingFile.id === newFile.id))
UniqueNewFiles(renderedFiles, newFiles) ==
  SelectSeq(newFiles,
            LAMBDA newFile : ~\E k \in 1..Len(renderedFiles) :
                                 renderedFiles[k].id = newFile.id)

FileListView(rendered, list) ==
  [flow |-> "onFilesAdded", input |-> rendered, output |-> list]

InitFileList ==
  /\ PageIdle
  /\ pureCall = Some(FileListView(<<>>, <<>>))

FileListUnchanged ==
  UNCHANGED <<files, ocrEngine, reprocessingFileId, reOcrFileId, previewing,
              previewJobs, nextJob, runs, engineChanges, languages,
              ocrSpaceApiKey, opencvApiUrl, awsCredentials, workbook,
              charWhitelist, startedBeforeClear>>

\* onFilesAdded(addedFiles), called from the last render
onFilesAddedBatch(addedFiles) ==
  /\ pureCall # Undefined
  /\ TheValue(pureCall).flow = "onFilesAdded"
  /\ Len(TheValue(pureCall).output) + Len(addedFiles) <= MaxListed
  /\ IF UploadRejected # None
     THEN /\ toast' = UploadRejected
          /\ UNCHANGED pureCall
     ELSE /\ pureCall' = Some([TheValue(pureCall) EXCEPT
                                 !.output = @ \o UniqueNewFiles(TheValue(pureCall).input,
                                                                NewFiles(addedFiles))])
          /\ toast' = None
  /\ FileListUnchanged

\* clearAll, on the list as an array
clearAllFiles ==
  /\ pureCall # Undefined
  /\ TheValue(pureCall).flow = "onFilesAdded"
  /\ TheValue(pureCall).output # <<>>
  /\ pureCall' = Some([TheValue(pureCall) EXCEPT !.output = <<>>])
  /\ toast' = None
  /\ FileListUnchanged

\* React renders Home again: the handlers now close over the current list
renderHome ==
  /\ pureCall # Undefined
  /\ TheValue(pureCall).flow = "onFilesAdded"
  /\ TheValue(pureCall).input # TheValue(pureCall).output
  /\ pureCall' = Some([TheValue(pureCall) EXCEPT !.input = TheValue(pureCall).output])
  /\ toast' = None
  /\ FileListUnchanged

NextFileList ==
  \/ \E addedFiles \in Batches : onFilesAddedBatch(addedFiles)
  \/ clearAllFiles
  \/ renderHome

SpecFileList == InitFileList /\ [][NextFileList]_vars

\* ================================================================ claims

\* ------------------------------------------------------------------- C1
StatusEdges ==
  {<<"pending", "awaiting-selection">>, <<"awaiting-selection", "processing">>,
   <<"processing", "completed">>, <<"processing", "error">>,
   <<"completed", "pending">>, <<"error", "pending">>,
   <<"completed", "processing">>, <<"error", "processing">>}

StatusChange(d) == <<files[d].status, files'[d].status>>

\* C1: in every step, a document that stays in the list keeps its status or
\* changes it along one of the eight edges of the state machine.
C1_OnlyStateMachineEdges ==
  [][\A d \in DocIds :
       (d \in DOMAIN files /\ d \in DOMAIN files'
          /\ files[d].status # files'[d].status)
       => StatusChange(d) \in StatusEdges]_vars

\* ------------------------------------------------------------------- C2
LiveRunsOf(d) == {r \in RunIds : runs[r].doc = d /\ Live(r)}

StartsRunOrReset(d) ==
  \/ SelectionPanelVisible(d)
  \/ ReprocessEnabled(d)
  \/ ReOcrEnabled(d)

\* C2: a document identity never has two runs in flight, and while one run
\* is in flight none of start processing, reprocess and re-recognize is
\* available for it.
C2_SingleRunInFlight ==
  \A d \in DocIds :
    /\ Cardinality(LiveRunsOf(d)) <= 1
    /\ LiveRunsOf(d) # {} => ~StartsRunOrReset(d)

\* ------------------------------------------------------------------- C3
RecognitionFailed(r) ==
  /\ r \in RunIds /\ runs[r].pc = "recognizing"
  /\ runs'[r].pc = "failed"

C4_WorkerTerminatedOnEveryPath ==
  \A r \in RunIds :
    /\ runs[r].workersCreated <= 1
    /\ (runs[r].engine = "tesseract" /\ runs[r].pc \in {"page", "recognizing", "terminating", "completed"})
         => runs[r].workersCreated = 1
    /\ runs[r].pc \in {"completed", "failed"} => runs[r].tesseractWorker # "alive"

\* ------------------------------------------------------------------- C5
\* C5: a cached structured preview of a task is what processTask computes
\* from the document's current raw text, manual edits and the task's
\* current rules.
C5_PreviewIsCurrent ==
  \A d \in DOMAIN files : \A i \in 1..Len(files[d].extractionTasks) :
    LET task == files[d].extractionTasks[i]
    IN task.structuredDataPreview # Undefined
         => TheValue(task.structuredDataPreview) = ProcessTask(files[d], task)

\* ------------------------------------------------------------------- C6
AllPreviewsCleared(f) ==
  \A i \in 1..Len(f.extractionTasks) : f.extractionTasks[i].structuredDataPreview = Undefined

TextEdit(d) ==
  \E page \in Pages, t \in Texts : handleTextChange(d, page, t)

RuleEdit(d, t) ==
  \E rules \in Rules : handleUpdateTask(d, t, rules)

RoiChange(d) ==
  \/ \E page \in Pages, rect \in Rects : handleMouseUp(d, page, rect)
  \/ ClearSelections(d)

\* C6 as stated: a raw-text edit, a rule edit of any one task and a change
\* of the regions of interest each leave every task of the document
\* without preview, and the status as it was.
C6_EveryEditClearsEveryPreview ==
  [][\A d \in DocIds :
       (TextEdit(d) \/ (\E t \in TaskIds : RuleEdit(d, t)) \/ RoiChange(d))
         => /\ AllPreviewsCleared(files'[d])
            /\ files'[d].status = files[d].status]_vars

\* C6 (amended): a raw-text edit and a change of the regions of interest
\* leave every task of the document without preview; a rule edit of a task
\* leaves that task without preview and every other task as it was; none
\* of the three changes the status.
C6_EditsClearPreviews ==
  [][\A d \in DocIds :
       /\ (TextEdit(d) \/ RoiChange(d))
            => /\ AllPreviewsCleared(files'[d])
               /\ files'[d].status = files[d].status
       /\ \A t \in TaskIds :
            RuleEdit(d, t)
              => /\ files'[d].status = files[d].status
                 /\ Len(files'[d].extractionTasks) = Len(files[d].extractionTasks)
                 /\ \A i \in 1..Len(files[d].extractionTasks) :
                      IF files[d].extractionTasks[i].id = t
                      THEN files'[d].extractionTasks[i].structuredDataPreview = Undefined
                      ELSE files'[d].extractionTasks[i] = files[d].extractionTasks[i]]_vars

\* a document edited by hand and with a region of interest, one task of
\* which has a preview while another, with rules, has none
C6_Witness ==
  \E d \in DOMAIN files :
    /\ DOMAIN files[d].manuallyEditedPages # {}
    /\ Len(files[d].selectionRectangles) > 0
    /\ \E i, j \in 1..Len(files[d].extractionTasks) :
         /\ files[d].extractionTasks[i].structuredDataPreview # Undefined
         /\ files[d].extractionTasks[j].rules # 0
         /\ files[d].extractionTasks[j].structuredDataPreview = Undefined

\* ------------------------------------------------------------------- C7
ProducedBy(r, f) ==
  \/ \E i \in 1..Len(f.extractedData) : f.extractedData[i].tsv = OcrText(r)
  \/ /\ f.structuredDataPreview # Undefined
     /\ \E i \in 1..Len(TheValue(f.structuredDataPreview)) :
          TheValue(f.structuredDataPreview)[i].run = r

\* C7: no document holds a page result or a structured row that a run
\* which ended in error produced.
C7_NoPartialResults ==
  \A r \in RunIds : runs[r].pc = "failed"
      => \A d \in DOMAIN files : ~ProducedBy(r, files[d])

\* a run that failed after it had recognized a page, its document in error
C7_Witness ==
  \E r \in RunIds :
    /\ runs[r].pc = "failed"
    /\ runs[r].processedCount >= 1
    /\ Len(runs[r].newExtractedDataForFile) + Len(runs[r].allStructuredData) >= 1
    /\ runs[r].doc \in DOMAIN files
    /\ files[runs[r].doc].status = "error"

\* ------------------------------------------------------------------- C8
RunCompletes(r) ==
  /\ r \in RunIds /\ Live(r)
  /\ runs'[r].pc = "completed"

ResultPages(f) == [i \in 1..Len(f.extractedData) |-> f.extractedData[i].page]

\* C8: when a run with a text-returning backend completes, the pages of
\* the document's results are the document's selected pages, each once,
\* in ascending order.
C8_OneResultPerSelectedPage ==
  [][\A r \in RunIds :
       (RunCompletes(r) /\ runs[r].engine \in TextEngines /\ runs[r].doc \in DOMAIN files')
         => ResultPages(files'[runs[r].doc]) = SortAsc(files'[runs[r].doc].selectedPages)]_vars

\* ------------------------------------------------------------------- C9
StrictlyAscending(seq) == \A i, j \in 1..Len(seq) : i < j => seq[i] < seq[j]

\* C9: the pages a run has called the backend for are, in the order of the
\* calls, an initial part of the selected pages in ascending order; a call
\* is made only when all earlier ones have returned, so at most one is in
\* flight.
C9_SequentialAscendingCalls ==
  \A r \in RunIds :
    /\ StrictlyAscending(runs[r].called)
    /\ Cardinality(runs[r].inFlight) <= 1
    /\ Live(r) =>
         /\ Range(runs[r].called) \subseteq Range(runs[r].processedFile.selectedPages)
         /\ \A p \in Range(runs[r].processedFile.selectedPages) :
               p \in Range(runs[r].called)
                 \/ \A q \in Range(runs[r].called) : q < p
         /\ Len(runs[r].called) - runs[r].processedCount = Cardinality(runs[r].inFlight)

\* a run started with the pages selected in descending order has called
\* the backend for both
C9_Witness ==
  \E r \in RunIds :
    /\ Live(r)
    /\ runs[r].processedFile.selectedPages = <<2, 1>>
    /\ Len(runs[r].called) = 2

\* ------------------------------------------------------------------ C10
RejectedStart(d) ==
  /\ handleStartProcessing(d)
  /\ Len(files[d].selectedPages) = 0

\* C10: a start request for a document without selected page changes no
\* document and starts no run, and no document is in status processing
\* with an empty set of selected pages.
C10_NoRunWithoutPages ==
  [][/\ \A d \in DocIds : RejectedStart(d) => UNCHANGED <<files, runs>>
     /\ \A d \in DOMAIN files' :
          files'[d].status = "processing" => Len(files'[d].selectedPages) > 0]_vars

\* ------------------------------------------------------------------ C11
\* the run r was started by this step
RunStarted(r) == r \in DOMAIN runs' /\ r \notin DOMAIN runs

\* the run r is in flight before this step and has not failed after it
RunGoesOn(r) == r \in DOMAIN runs /\ Live(r) /\ runs'[r].pc # "failed"

\* the run r got the result of a page in this step
PageDone(r) ==
  r \in DOMAIN runs /\ runs'[r].processedCount # runs[r].processedCount

ProgressAfter(doneCount, total) ==
  Min(100, Round(5 * total + doneCount * 95, total))

\* C11: a step that starts a run leaves the document's progress at 0; while
\* a run of a document is in flight the document's progress does not
\* decrease; and the step that gives a run the result of its doneCount-th
\* page of total leaves the progress at min(100, round(5 + doneCount/total*95)).
C11_ProgressContract ==
  [][\A r \in DOMAIN runs' :
       LET d == runs'[r].doc
       IN d \in DOMAIN files' =>
            /\ RunStarted(r) => files'[d].progress = 0
            /\ (RunGoesOn(r) /\ d \in DOMAIN files)
                 => files'[d].progress >= files[d].progress
            /\ PageDone(r) =>
                 files'[d].progress =
                   ProgressAfter(runs'[r].processedCount, Len(runs'[r].pagesToProcess))]_vars

\* ------------------------------------------------------------------ C12
\* the run that this step started
StartedRun == CHOOSE r \in DOMAIN runs' : r \notin DOMAIN runs

\* the run r, started by a re-recognition, completes in this step
ReOcrCompletes(r) ==
  /\ r \in DOMAIN runs /\ Live(r) /\ runs[r].awaited
  /\ runs'[r].pc = "completed"

C16_ConfigurationErrorBeforeAnyPage ==
  \A r \in RunIds :
    ConfigurationMissing(runs[r])
      => runs[r].rendered = <<>> /\ runs[r].called = <<>>

\* ------------------------------------------------------------------ C17
PreprocessingFailed(r) ==
  \E outcome \in PreprocessOutcomes \ {"processed"} : Preprocess(r, outcome)

\* C17: when the pre-processing of a page fails, no document changes (none
\* is put in error), and the run calls the backend for that page with the
\* unmodified image, its remaining pages still to do.
C17_PreprocessingFailureIsSoft ==
  [][\A r \in DOMAIN runs :
       PreprocessingFailed(r) =>
         /\ files' = files
         /\ runs'[r].pc = "recognizing"
         /\ runs'[r].called = Append(runs[r].called, runs[r].rendered[Len(runs[r].rendered)])
         /\ runs'[r].images = Append(runs[r].images, "original")
         /\ runs'[r].pagesToProcess = runs[r].pagesToProcess
         /\ runs'[r].processedCount = runs[r].processedCount]_vars

\* a run with pre-processing has completed two pages, the first of them
\* recognized from the unmodified image, and its document is completed
C17_Witness ==
  \E r \in RunIds :
    /\ NeedsPreprocessing(runs[r])
    /\ runs[r].pc = "completed"
    /\ Len(runs[r].images) = 2 /\ runs[r].images[1] = "original"
    /\ runs[r].doc \in DOMAIN files
    /\ files[runs[r].doc].status = "completed"
    /\ Len(files[runs[r].doc].extractedData) = 2

\* ------------------------------------------------------------------ C13
\* the tasks of f are, in order, the tasks of g with their ids and rules
TasksKept(g, f) ==
  /\ Len(f.extractionTasks) = Len(g.extractionTasks)
  /\ \A i \in 1..Len(g.extractionTasks) :
       /\ f.extractionTasks[i].id = g.extractionTasks[i].id
       /\ f.extractionTasks[i].rules = g.extractionTasks[i].rules

\* C13: the completion of a run with a text-returning backend gives a
\* document without task one task, with blank rules, and leaves a document
\* with tasks its tasks, their previews cleared; and no step of a run, of a
\* preview generation or of a reset takes a task from a document that
\* stays in the list.
C13_DefaultTaskAndTasksKept ==
  [][/\ \A r \in DOMAIN runs :
          (RunCompletes(r) /\ runs[r].engine \in TextEngines /\ runs[r].doc \in DOMAIN files)
            => LET f == files[runs[r].doc]
                   g == files'[runs[r].doc]
               IN IF Len(f.extractionTasks) = 0
                  THEN /\ Len(g.extractionTasks) = 1
                       /\ g.extractionTasks[1].rules = 0
                       /\ g.extractionTasks[1].structuredDataPreview = Undefined
                  ELSE /\ TasksKept(f, g)
                       /\ AllPreviewsCleared(g)
     /\ \A d \in DOMAIN files \cap DOMAIN files' :
          Len(files[d].extractionTasks) > 0 => TasksKept(files[d], files'[d])]_vars

\* ------------------------------------------------------------------ C14
\* every document other than d is in the list after the step as before it,
\* with every field unchanged
OthersUnchanged(d) ==
  \A e \in DOMAIN files : e # d => e \in DOMAIN files' /\ files'[e] = files[e]

C15_ProcessingEnds ==
  \A d \in DocIds :
    (Has(d) /\ files[d].status = "processing")
      ~> (~Has(d) \/ files[d].status \in {"completed", "error"})

\* a document is being processed by a run that waits for the
\* pre-processing of a page
C15_Witness ==
  \E d \in DocIds, r \in RunIds :
    /\ Has(d) /\ files[d].status = "processing"
    /\ runs[r].doc = d /\ runs[r].pc = "preprocessing"

\* ------------------------------------------------------------------ C18
\* C18: for a first table of n rows and m columns the flow returns, when
\* n > 1, n - 1 records whose keys are the cell texts of the first row, the
\* k-th record holding the texts of row k + 1 column by column; when n = 1
\* every record it returns has the keys "Column 1" .. "Column m" and holds
\* the texts of the row column by column.  (Of two columns with the same
\* header text a record can hold one; either is accepted.)
C18_TextractRecords ==
  (pureCall # Undefined
     /\ TheValue(pureCall).flow = "extractTableFlow"
     /\ TheValue(pureCall).output # Undefined)
    => LET rows == RowsAsArrays(TheValue(pureCall).input)
           out == TheValue(TheValue(pureCall).output)
           n == Len(rows)
       IN /\ n > 1 =>
               /\ Len(out) = n - 1
               /\ \A k \in 1..(n - 1) :
                    /\ DOMAIN out[k] = Range(rows[1])
                    /\ \A header \in Range(rows[1]) :
                         \E c \in 1..Len(rows[1]) :
                           rows[1][c] = header /\ out[k][header] = rows[k + 1][c]
          /\ n = 1 =>
               \A k \in 1..Len(out) :
                 /\ DOMAIN out[k] = {ColumnName(c) : c \in 1..Len(rows[1])}
                 /\ \A c \in 1..Len(rows[1]) : out[k][ColumnName(c)] = rows[1][c]

\* ------------------------------------------------------------------ C19
\* the table-structuring backend returns for a page of the run r and has
\* found no table on it
NoTableFound(r) == RecognizeReturns(r, 0) /\ runs[r].engine = "textract"

\* C19: a page on which the table-structuring backend finds no table does
\* not fail the run and does not put the document in error; and a run that
\* completes without a table on any of its pages leaves the document
\* completed, with a structured result of zero rows.
C19_NoTableIsNoError ==
  [][\A r \in DOMAIN runs :
       /\ NoTableFound(r) =>
            /\ runs'[r].pc # "failed"
            /\ \A d \in DOMAIN files :
                 files[d].status # "error" => d \in DOMAIN files' /\ files'[d].status # "error"
       /\ (RunCompletes(r) /\ runs[r].engine = "textract"
             /\ runs'[r].allStructuredData = <<>> /\ runs[r].doc \in DOMAIN files)
            => /\ files'[runs[r].doc].status = "completed"
               /\ files'[runs[r].doc].structuredDataPreview = Some(<<>>)]_vars

\* a run of the table-structuring backend over two pages has completed
\* without a row
C19_Witness ==
  \E r \in DOMAIN runs :
    /\ runs[r].engine = "textract" /\ runs[r].pc = "completed"
    /\ Len(runs[r].called) = 2 /\ runs[r].allStructuredData = <<>>
    /\ runs[r].doc \in DOMAIN files
    /\ files[runs[r].doc].status = "completed"
    /\ files[runs[r].doc].structuredDataPreview = Some(<<>>)

\* ------------------------------------------------------------------ C20
\* C20: for a task whose find list and replace list both have values, in
\* different numbers, processTask returns what it returns for the same text
\* and the same task with both lists empty.
C20_UnequalListsDisableCorrections ==
  (pureCall # Undefined
     /\ TheValue(pureCall).flow = "processTask"
     /\ TheValue(pureCall).output # Undefined)
    => LET input == TheValue(pureCall).input
           task == input.task
       IN (/\ Len(task.findValues) > 0 /\ Len(task.replaceValues) > 0
           /\ Len(task.findValues) # Len(task.replaceValues))
            => TheValue(TheValue(pureCall).output)
                 = AllStructuredData(input.pageTexts,
                                     [task EXCEPT !.findValues = <<>>,
                                                  !.replaceValues = <<>>])

\* processTask has returned rows for a task with two find values and one
\* replace value, whose first find value occurs in the text
C20_Witness ==
  /\ pureCall # Undefined
  /\ TheValue(pureCall).flow = "processTask"
  /\ TheValue(pureCall).output # Undefined
  /\ LET input == TheValue(pureCall).input
     IN /\ Len(input.task.findValues) = 2 /\ Len(input.task.replaceValues) = 1
        /\ input.task.findValues[1] # <<>>
        /\ input.task.replaceValues[1] # input.task.findValues[1]
        /\ Includes(input.pageTexts[1], input.task.findValues[1])
        /\ Len(TheValue(TheValue(pureCall).output)) > 0

\* ------------------------------------------------------------------ C21
\* the replace-all of the literal substring pat by the text rep
RECURSIVE LiteralReplaceAll(_, _, _)
LiteralReplaceAll(text, pat, rep) ==
  IF text = <<>> THEN <<>>
  ELSE IF StartsWith(text, pat)
  THEN rep \o LiteralReplaceAll(SubSeq(text, Len(pat) + 1, Len(text)), pat, rep)
  ELSE <<Head(text)>> \o LiteralReplaceAll(Tail(text), pat, rep)

\* the pairs from the i-th on applied one after the other, a pair with a
\* blank find value changing nothing
RECURSIVE PairsApplied(_, _, _, _)
PairsApplied(text, findValues, replaceValues, i) ==
  IF i > Len(findValues) THEN text
  ELSE PairsApplied(IF findValues[i] = <<>> THEN text
                    ELSE LiteralReplaceAll(text, findValues[i], replaceValues[i]),
                    findValues, replaceValues, i + 1)

\* C21: for a task whose find list and replace list have the same number
\* of values, at least one, processTask returns what it returns without
\* corrections for the text in which the pairs have been applied in list
\* order, each as a replace-all of the literal find value by the replace
\* value; the eliminators and the splitting see the corrected text.
C21_CorrectionsInListOrder ==
  (pureCall # Undefined
     /\ TheValue(pureCall).flow = "processTask"
     /\ TheValue(pureCall).output # Undefined)
    => LET input == TheValue(pureCall).input
           task == input.task
       IN (Len(task.findValues) > 0 /\ Len(task.findValues) = Len(task.replaceValues))
            => TheValue(TheValue(pureCall).output)
                 = AllStructuredData(
                     <<PairsApplied(input.pageTexts[1], task.findValues,
                                    task.replaceValues, 1)>>,
                     [task EXCEPT !.findValues = <<>>, !.replaceValues = <<>>])

\* ------------------------------------------------------------------ C22
\* the call of processTask has returned
ProcessTaskReturned ==
  /\ pureCall # Undefined
  /\ TheValue(pureCall).flow = "processTask"
  /\ TheValue(pureCall).output # Undefined

\* the task without corrections: its text is structured as it is
Uncorrected(task) == ~UseCorrections(task.findValues, task.replaceValues)

\* the line contains, case ignored, one of the keywords
HasKeyword(line, keywords) ==
  \E i \in 1..Len(keywords) :
    keywords[i] # <<>> /\ Includes(ToLowerCase(line), ToLowerCase(keywords[i]))

\* the lines of the text without a keyword, in their order
LinesKept(text, keywords) ==
  LET Kept(line) == ~HasKeyword(line, keywords)
  IN SelectSeq(Split(text, <<"\n">>), Kept)

\* C22: processTask returns the rows of the lines of the (corrected) text
\* that do not contain, case ignored, any eliminator keyword, in the order
\* of the lines: what it returns without rules for the text made of these
\* lines.
C22_EliminatorsDropLines ==
  ProcessTaskReturned
    => LET input == TheValue(pureCall).input
           task == input.task
           text == IF Uncorrected(task) THEN input.pageTexts[1]
                   ELSE Corrected(input.pageTexts[1], task.findValues, task.replaceValues, 1)
       IN TheValue(TheValue(pureCall).output)
            = AllStructuredData(
                <<Join(LinesKept(text, task.eliminators), <<"\n">>)>>,
                [task EXCEPT !.eliminators = <<>>, !.findValues = <<>>,
                             !.replaceValues = <<>>])

\* a text of two lines, the second in capitals and dropped for a keyword,
\* the first kept and returned as a row
C22_Witness ==
  /\ ProcessTaskReturned
  /\ LET input == TheValue(pureCall).input
     IN /\ Uncorrected(input.task)
        /\ input.pageTexts[1] = <<"b", "\n", "A">>
        /\ Len(input.task.eliminators) > 0
        /\ Len(TheValue(TheValue(pureCall).output)) = 1

\* ------------------------------------------------------------------ C23
\* the text processTask hands to cleanOcrData, and the separator
TextToStructure(text, task) ==
  Eliminated(IF UseCorrections(task.findValues, task.replaceValues)
             THEN Corrected(text, task.findValues, task.replaceValues, 1)
             ELSE text,
             Eliminators(task))

SeparatorOf(task) ==
  IF task.columnSeparators = <<>> THEN <<"\t">> ELSE task.columnSeparators

\* the row of a line: under the i-th header the trimmed i-th field, or the
\* empty string when the line has fewer fields
FieldsRow(headers, line, separator) ==
  LET fields == Split(line, separator)
  IN [header \in Range(headers) |->
        LET i == CHOOSE j \in 1..Len(headers) : headers[j] = header
        IN IF i <= Len(fields) THEN Trim(fields[i]) ELSE <<>>]

C23_WitnessExtraFields ==
  /\ ProcessTaskReturned
  /\ LET input == TheValue(pureCall).input
     IN /\ input.task.columnHeaders = <<"k">>
        /\ input.task.columnSeparators = <<>>
        /\ input.pageTexts[1] = <<"a", "\t", "b">>
        /\ TheValue(TheValue(pureCall).output) = <<[k |-> <<"a">>]>>

\* ------------------------------------------------------------------ C24
\* C24: every row processTask returns has a field that is not empty after
\* trimming, and it returns no row for a page whose text, after the
\* corrections and the eliminators, is empty or made of whitespace.
C24_NoEmptyRows ==
  ProcessTaskReturned
    => LET input == TheValue(pureCall).input
           out == TheValue(TheValue(pureCall).output)
       IN /\ \A k \in 1..Len(out) :
               \E header \in DOMAIN out[k] : Trim(out[k][header]) # <<>>
          /\ Trim(TextToStructure(input.pageTexts[1], input.task)) = <<>> => out = <<>>

\* a non-blank line whose only field under a header is empty gives no row
C24_Witness ==
  /\ ProcessTaskReturned
  /\ LET input == TheValue(pureCall).input
     IN /\ input.task.columnHeaders = <<"k">>
        /\ input.task.columnSeparators = <<>>
        /\ input.task.eliminators = <<>>
        /\ input.pageTexts[1] = <<"\t", "a">>
        /\ TheValue(TheValue(pureCall).output) = <<>>

\* ------------------------------------------------------------------ C25
\* the rows of the pages from page p on, page by page in ascending page
\* number: for a page with an edited text the rows of that text, for any
\* other page of the results the rows of its recognized text
RECURSIVE RowsFromPage(_, _, _)
RowsFromPage(file, task, p) ==
  IF p > NumPages THEN <<>>
  ELSE LET found == {i \in 1..Len(file.extractedData) : file.extractedData[i].page = p}
           rows == IF found = {} THEN <<>>
                   ELSE AllStructuredData(
                          <<IF p \in DOMAIN file.manuallyEditedPages
                            THEN file.manuallyEditedPages[p]
                            ELSE file.extractedData[CHOOSE i \in found : TRUE].tsv>>,
                          task)
       IN rows \o RowsFromPage(file, task, p + 1)

\* C25: processTask returns the rows of the pages one after the other in
\* ascending page number, those of a page with an edited text, were it
\* empty, computed from the edited text alone.
C25_PagesInOrderEditsOverride ==
  (pureCall # Undefined
     /\ TheValue(pureCall).flow = "processTask(file)"
     /\ TheValue(pureCall).output # Undefined)
    => TheValue(TheValue(pureCall).output)
         = RowsFromPage(TheValue(pureCall).input.file, TheValue(pureCall).input.task, 1)

\* two pages with recognized text, the first edited to the empty text: the
\* rows are those of the second page alone
C25_Witness ==
  /\ pureCall # Undefined
  /\ TheValue(pureCall).flow = "processTask(file)"
  /\ TheValue(pureCall).output # Undefined
  /\ LET input == TheValue(pureCall).input
     IN /\ Len(input.file.extractedData) = 2
        /\ input.file.extractedData[1].tsv = <<"a">>
        /\ input.file.extractedData[2].tsv = <<"b">>
        /\ DOMAIN input.file.manuallyEditedPages = {1}
        /\ input.file.manuallyEditedPages[1] = <<>>
        /\ input.task.findValues = <<>> /\ input.task.eliminators = <<>>
        /\ TheValue(TheValue(pureCall).output) = <<[k |-> <<"b">>]>>

\* ------------------------------------------------------------------ C26
\* the tasks of f that have no header
BlankTasks(f) ==
  {f.extractionTasks[i] : i \in {i \in 1..Len(f.extractionTasks) :
                                   f.extractionTasks[i].rules = 0}}

\* C26: for a task without headers processTask returns no row; a request
\* for its preview starts no computation and changes no document; the task
\* holds no cached preview; and the workbook of an export has no sheet of
\* its name.
C26_BlankHeadersGiveNothing ==
  [][/\ \A d \in DOMAIN files' : \A task \in BlankTasks(files'[d]) :
          /\ ProcessTask(files'[d], task) = <<>>
          /\ task.structuredDataPreview = Undefined
     /\ \A d \in DocIds, t \in TaskIds :
          (handlePreviewData(d, t)
             /\ \E task \in BlankTasks(files[d]) : task.id = t)
            => previewing' = Undefined /\ files' = files
     /\ \A d \in DocIds :
          (generateAndDownloadExcel(d) /\ workbook' # Undefined)
            => \A task \in BlankTasks(files[d]) :
                 \A k \in 1..Len(TheValue(workbook').sheets) :
                   TheValue(workbook').sheets[k].name # task.name]_vars


\* the tasks of f that have headers, in task order, and the sheets the
\* export is to make for them: the task's rows under its name, or the
\* placeholder row when the task has no rows
TasksWithHeaders(f) == SelectSeq(f.extractionTasks, LAMBDA task : task.rules # 0)

ExpectedSheets(f) ==
  LET tasks == TasksWithHeaders(f)
  IN [i \in 1..Len(tasks) |->
        IF Len(ProcessTask(f, tasks[i])) > 0
        THEN DataSheet(tasks[i].name, ProcessTask(f, tasks[i]))
        ELSE PlaceholderSheet(tasks[i].name)]

\* C27: the export of a document recognized with a text backend makes
\* exactly one sheet for each task that has headers, named by the task's
\* name and holding the task's rows (the placeholder row when there are
\* none), the sheets in task order.
C27_OneSheetPerTaskWithHeaders ==
  [][\A d \in DocIds :
       (generateAndDownloadExcel(d) /\ files[d].ocrEngine # "textract"
        /\ TasksWithHeaders(files[d]) # <<>>)
       => workbook' = Some([doc |-> d, sheets |-> ExpectedSheets(files[d])])]_vars


\* p / q rounded to the nearest integer, the larger one of two equally near
RoundedQuotient(p, q) == (2 * p + q) \div (2 * q)

MouseUpReturned ==
  /\ pureCall # Undefined
  /\ TheValue(pureCall).flow = "handleMouseUp"
  /\ TheValue(pureCall).output # Undefined

\* C28: a drawn rectangle of width and height at least 5 is appended as
\* left' = round(left * ow / dw), top' = round(top * oh / dh),
\* width' = round(width * ow / dw), height' = round(height * oh / dh),
\* without clamping; a rectangle of width or height below 5 is discarded and
\* the rectangles of the document stay as they are.
C28_RectangleScaledToOriginal ==
  MouseUpReturned =>
    LET input == TheValue(pureCall).input
        drawn == drawnRect(input.drawingState, input.mousePosition)
        dw == input.displayWidth
        dh == input.displayHeight
        ow == input.originalDimensions.width
        oh == input.originalDimensions.height
        rects == TheValue(TheValue(pureCall).output).selectionRectangles
    IN IF drawn.width >= 5 /\ drawn.height >= 5
       THEN rects = Append(input.existingRects,
                           [left |-> RoundedQuotient(drawn.left * ow, dw),
                            top |-> RoundedQuotient(drawn.top * oh, dh),
                            width |-> RoundedQuotient(drawn.width * ow, dw),
                            height |-> RoundedQuotient(drawn.height * oh, dh)])
       ELSE rects = input.existingRects


\* the Number x lies within one unit of the natural n
WithinOne(x, n) ==
  /\ Floor(x) >= n - 1
  /\ Floor(x) < n + 1 \/ (Floor(x) = n + 1 /\ IsInteger(x))

SelectionRendered ==
  /\ MouseUpReturned
  /\ TheValue(TheValue(pureCall).output).displayRects # Undefined

\* C29: the box drawn for a rectangle that was just appended, scaled back
\* from the original dimensions to the display dimensions, has left, top,
\* width and height within one unit of the rectangle that was drawn.
C29_RoundTripWithinOneUnit ==
  SelectionRendered =>
    LET input == TheValue(pureCall).input
        drawn == drawnRect(input.drawingState, input.mousePosition)
        boxes == TheValue(TheValue(TheValue(pureCall).output).displayRects)
    IN Len(boxes) > Len(input.existingRects) =>
         /\ WithinOne(boxes[Len(boxes)].left, drawn.left)
         /\ WithinOne(boxes[Len(boxes)].top, drawn.top)
         /\ WithinOne(boxes[Len(boxes)].width, drawn.width)
         /\ WithinOne(boxes[Len(boxes)].height, drawn.height)


\* C29, amended: the box drawn for a rectangle that was just appended has
\* left and width within one unit of the drawn ones when the display width
\* is less than twice the original width, and top and height within one
\* unit of the drawn ones when the display height is less than twice the
\* original height.
C29_RoundTripWithinOneUnitUnlessMagnified ==
  SelectionRendered =>
    LET input == TheValue(pureCall).input
        drawn == drawnRect(input.drawingState, input.mousePosition)
        boxes == TheValue(TheValue(TheValue(pureCall).output).displayRects)
    IN Len(boxes) > Len(input.existingRects) =>
         /\ input.displayWidth < 2 * input.originalDimensions.width
              => /\ WithinOne(boxes[Len(boxes)].left, drawn.left)
                 /\ WithinOne(boxes[Len(boxes)].width, drawn.width)
         /\ input.displayHeight < 2 * input.originalDimensions.height
              => /\ WithinOne(boxes[Len(boxes)].top, drawn.top)
                 /\ WithinOne(boxes[Len(boxes)].height, drawn.height)

\* a rectangle was drawn, stored and drawn back with a width that is not
\* the drawn one, over an image shown at less than twice its width
C29_Witness ==
  /\ SelectionRendered
  /\ LET input == TheValue(pureCall).input
         drawn == drawnRect(input.drawingState, input.mousePosition)
         boxes == TheValue(TheValue(TheValue(pureCall).output).displayRects)
     IN /\ Len(boxes) > Len(input.existingRects)
        /\ input.displayWidth < 2 * input.originalDimensions.width
        /\ input.displayHeight < 2 * input.originalDimensions.height
        /\ drawn.left > 0
        /\ ~IsInteger(boxes[Len(boxes)].width)
        /\ WithinOne(boxes[Len(boxes)].width, drawn.width)


\* the rectangles of document d before and after a step that changes them
RectanglesChange(d) ==
  /\ d \in DOMAIN files /\ d \in DOMAIN files'
  /\ files'[d].selectionRectangles # files[d].selectionRectangles

\* C30: a step that changes the rectangles of a document either appends
\* exactly one rectangle after the existing ones, which stay as they are and
\* in order, or empties the set; no step removes or changes one of them.
C30_RectanglesAppendedOrCleared ==
  [][\A d \in DocIds :
       RectanglesChange(d) =>
         \/ files'[d].selectionRectangles = <<>>
         \/ /\ Len(files'[d].selectionRectangles) = Len(files[d].selectionRectangles) + 1
            /\ SubSeq(files'[d].selectionRectangles, 1, Len(files[d].selectionRectangles))
                 = files[d].selectionRectangles]_vars


\* the allowed-character string of a set of selected languages
WhitelistOf(langs) ==
  CASE langs = {"eng"} -> ENG_CHARS \o SYMBOLS
    [] langs = {"hin"} -> HINDI_CHARS \o SYMBOLS
    [] langs = {"eng", "hin"} -> ENG_CHARS \o HINDI_CHARS \o SYMBOLS
    [] OTHER -> SYMBOLS

LanguageStep == \E lang \in LanguageOptions, checked \in BOOLEAN : handleLanguageChange(lang, checked)
AcceptedLanguageStep == LanguageStep /\ toast' # "Language Required"
WhitelistEdit == \E value \in WhitelistTexts : setCharWhitelist(value) /\ charWhitelist' = value

\* C31: after every accepted language change the allowed-character string is
\* the English set if 'eng' is selected, then the Hindi set if 'hin' is
\* selected, then the symbols, whatever the order of the language list; a
\* manual edit replaces the string, and nothing else changes it.
C31_WhitelistFollowsLanguages ==
  [][/\ AcceptedLanguageStep => charWhitelist' = WhitelistOf(Range(languages'))
     /\ charWhitelist' # charWhitelist => AcceptedLanguageStep \/ WhitelistEdit]_vars

\* Hindi was selected before English: the string still starts with the
\* English set
C31_Witness ==
  /\ languages = <<"hin", "eng">>
  /\ charWhitelist = ENG_CHARS \o HINDI_CHARS \o SYMBOLS

\* the toggle would leave no language selected
RemovesLastLanguage(lang, checked) ==
  /\ ~checked
  /\ IF lang = "hinglish" THEN Range(languages) \subseteq {"eng", "hin"}
     ELSE Range(languages) = {lang}

\* C37: the selected language set is never empty; a toggle that would
\* remove the last language, the combined option included, is rejected and
\* leaves the language list and the allowed-character string as they are.
C37_LanguagesNeverEmpty ==
  /\ Len(languages) > 0
  /\ [][/\ Len(languages') > 0
        /\ \A lang \in LanguageOptions, checked \in BOOLEAN :
             (handleLanguageChange(lang, checked) /\ RemovesLastLanguage(lang, checked))
             => /\ toast' = "Language Required"
                /\ UNCHANGED <<languages, charWhitelist>>]_vars

\* unchecking the combined option was refused while English and Hindi were
\* the selected languages and the string was a typed one
C37_Witness ==
  /\ toast = "Language Required"
  /\ Range(languages) = {"eng", "hin"}
  /\ charWhitelist = <<"typed">>


\* a step of a preview generation or of a run that was in flight at a
\* Clear All
StaleStep ==
  \/ \E j \in DOMAIN previewJobs :
       /\ <<"job", j>> \in startedBeforeClear
       /\ PreviewPage(j) \/ \E thrown \in Thrown : PreviewFails(j, thrown)
  \/ \E r \in RunIds : <<"run", r>> \in startedBeforeClear /\ RunStepOf(r)

\* C32: after Clear All, the later steps of a preview generation or of a
\* run that was started before the clear change no document: a document
\* that was added after the clear, from the same file or not, is written
\* only by its own preview generation and runs.
C32_ClearedCallsWriteNothing ==
  [][StaleStep => files' = files]_vars


\* C33: no two extraction tasks of a document have the same automatically
\* generated name, whatever tasks were added and removed (no task is ever
\* renamed here), so that every task can get a sheet of its own.
C33_TaskNamesDistinct ==
  \A d \in DOMAIN files :
    \A i, k \in 1..Len(files[d].extractionTasks) :
      i # k => files[d].extractionTasks[i].name # files[d].extractionTasks[k].name


\* the run r is requested in this step: the head of processFile has run
RunRequested(r) == r \notin DOMAIN runs /\ r \in DOMAIN runs'

\* the run r fails in this step: its catch block runs
RunFails(r) ==
  /\ r \in DOMAIN runs /\ r \in DOMAIN runs'
  /\ Live(r) /\ runs'[r].pc = "failed"

\* the document f with nothing but the marks of a failure changed
MarkedFailed(f, message) ==
  [f EXCEPT !.status = "error", !.progress = 0, !.error = message]

EditsKept(f, g) ==
  \A page \in DOMAIN f.manuallyEditedPages :
    /\ page \in DOMAIN g.manuallyEditedPages
    /\ g.manuallyEditedPages[page] = f.manuallyEditedPages[page]

\* the step starts the first run of the document d: a run on a document
\* that has no page image of a completed run
FirstRunStarts(d) ==
  \E r \in 1..MaxRuns :
    /\ RunRequested(r) /\ runs'[r].doc = d
    /\ runs'[r].processedFile.pageImages = {}

\* the step is the reprocess of the document d
ReprocessStep(d) ==
  /\ reprocessingFileId' = d /\ reprocessingFileId # d
  /\ files'[d] = ResetFile(files[d])

\* C35: the manual edits of a document's page texts are kept by every step
\* of a re-recognition run (its start, its pages, its completion and its
\* failure) and, once the run has completed, processTask still takes the
\* edit for the text of an edited page instead of the newly recognized text.
\* A step empties or drops edits only if it starts the first run of the
\* document or is its reprocess (the user's own typing replaces the text of
\* the page typed in).
C35_EditsSurviveReRecognition ==
  /\ [][\A d \in DOMAIN files \cap DOMAIN files' :
          \/ EditsKept(files[d], files'[d])
          \/ FirstRunStarts(d)
          \/ ReprocessStep(d)
          \/ \E page \in Pages, t \in Texts :
               files'[d] = TextChanged(files[d], page, t)]_vars
  /\ [](\A d \in DOMAIN files :
          \A task \in Range(files[d].extractionTasks) :
            \A i \in 1..Len(ProcessTask(files[d], task)) :
              LET row == ProcessTask(files[d], task)[i]
              IN row.page \in DOMAIN files[d].manuallyEditedPages
                   => row.text = files[d].manuallyEditedPages[row.page])


\* the tasks `after` are the tasks `before`, each with its id, its name and
\* its rules, and none with a cached preview
TasksKeptWithoutPreview(before, after) ==
  /\ Len(after) = Len(before)
  /\ \A i \in 1..Len(before) :
       /\ after[i].id = before[i].id
       /\ after[i].name = before[i].name
       /\ after[i].rules = before[i].rules
       /\ after[i].structuredDataPreview = Undefined

\* the document f holds nothing of a run: no raw text, no page image, no
\* manual edit, no region of interest, no stored engine or languages
NoRunResults(f) ==
  /\ f.selectionRectangles = <<>>
  /\ f.manuallyEditedPages = EmptyMap /\ f.extractedData = <<>>
  /\ f.pageImages = {} /\ f.structuredDataPreview = Undefined
  /\ f.ocrEngine = None /\ f.languages = Undefined

\* the document f is as a reprocess leaves it
AfterReprocess(f) ==
  /\ f.status = "pending" /\ f.progress = 0
  /\ f.selectedPages = <<>> /\ f.error = None
  /\ NoRunResults(f)

\* the step is made by a call that was started for the document d before
\* the step: a run or a preview generation other than those the step starts
InFlightStep(d) ==
  \/ \E r \in DOMAIN runs : runs[r].doc = d /\ Live(r) /\ runs'[r] # runs[r]
  \/ \E j \in DOMAIN previewJobs :
       /\ previewJobs[j].doc = d
       /\ j \notin DOMAIN previewJobs' \/ previewJobs'[j] # previewJobs[j]

\* C36: a reprocess is accepted on a completed document or one in error; it
\* sets the status "pending" and the progress 0, empties the selected
\* pages, the regions of interest, the manual edits, the extracted raw text,
\* the stored engine, the stored languages and the error, and keeps every
\* task with its name and rules, clearing the cached previews only.  The run
\* that follows starts from the page selection and resumes nothing: while
\* the reprocess is under way no call in flight gives the document results
\* of a run, and a run on a document without such results is requested from
\* the selection panel, as a first run on the pages selected.
C36_ReprocessResetsDocument ==
  [][\A d \in DOMAIN files \cap DOMAIN files' :
       /\ ReprocessStep(d) =>
            /\ files[d].status \in {"completed", "error"}
            /\ AfterReprocess(files'[d])
            /\ TasksKeptWithoutPreview(files[d].extractionTasks,
                                       files'[d].extractionTasks)
       /\ reprocessingFileId = d /\ NoRunResults(files[d]) /\ InFlightStep(d) =>
            NoRunResults(files'[d])
       /\ NoRunResults(files[d]) =>
            \A r \in 1..MaxRuns :
              RunRequested(r) /\ runs'[r].doc = d =>
                /\ files[d].status = "awaiting-selection"
                /\ ~runs'[r].awaited
                /\ runs'[r].pagesToProcess = PagesToProcess(files[d].selectedPages)
                /\ runs'[r].processedCount = 0
                /\ runs'[r].newExtractedDataForFile = <<>>]_vars


\* C38: no two documents of the list have the same identity, whatever files
\* were added (the same file twice in one batch, or in two additions made
\* from the same render) and whenever the list was cleared.
C38_IdentitiesDistinct ==
  pureCall # Undefined /\ TheValue(pureCall).flow = "onFilesAdded" =>
    \A i, k \in 1..Len(TheValue(pureCall).output) :
      i # k => TheValue(pureCall).output[i].id # TheValue(pureCall).output[k].id

====
